---- MODULE Spec2Model ----
(***************************************************************************)
(* Must/may defined memory analysis of TSAR (DefinedMemory.h): the         *)
(* per-node DefUseSet, the DefinitionInfo lattice of the PrivateDFFwk      *)
(* data-flow framework and the bottom-up solution of a two-level region    *)
(* tree (inner loop region nested in the routine body).                    *)
(***************************************************************************)
EXTENDS Integers, FiniteSets, Sequences, TLC

\* Largest number of accesses recorded over all DefUseSets of a routine.
MaxAcc == 3

\* Longest execution path (in body nodes) enumerated through the inner region.
MaxPath == 4

(***************************************************************************)
(* Memory locations: byte ranges of one base object.                       *)
(***************************************************************************)
LocA == [off |-> 0, size |-> 4]
LocB == [off |-> 0, size |-> 2]
LocC == [off |-> 8, size |-> 4]
Locs == {LocA, LocB, LocC}

\* Alias-overlap query: the two byte ranges share at least one byte.
Overlap(x, y) == x.off < y.off + y.size /\ y.off < x.off + x.size

(***************************************************************************)
(* Region tree.  The outer region (routine body) is the chain              *)
(* oE -> n1 -> R -> n2 -> oX, where R is the inner region with entry iE,   *)
(* body nodes a, b and exit iX.                                            *)
(***************************************************************************)
InnerBody == {"a", "b"}
InnerNodes == {"iE", "a", "b", "iX"}
OuterNodes == {"oE", "n1", "R", "n2", "oX"}
FlatNodes == {"oE", "n1", "a", "b", "n2", "oX"}
AllNodes == InnerNodes \cup OuterNodes
BuildNodes == {"n1", "a", "b"}
\* The node whose instructions read memory: the last one of the inner body.
UseNodes == {"b"}

InnerOrder == <<"a", "b", "iX">>
OuterOrder == <<"n1", "R", "n2", "oX">>
FlatOrder == <<"n1", "a", "b", "n2", "oX">>

OuterEdges == {<<"oE", "n1">>, <<"n1", "R">>, <<"R", "n2">>, <<"n2", "oX">>}

InnerShapes ==
  { {<<"iE", "a">>, <<"a", "b">>, <<"b", "iX">>},
    {<<"iE", "a">>, <<"iE", "b">>, <<"a", "iX">>, <<"b", "iX">>},
    {<<"iE", "a">>, <<"a", "b">>, <<"b", "a">>, <<"b", "iX">>},
    {<<"iE", "a">>, <<"a", "b">>, <<"b", "b">>, <<"b", "iX">>},
    {<<"iE", "a">>, <<"a", "b">>, <<"b", "iX">>, <<"iE", "iX">>} }

Preds(E, n) == {e[1] : e \in {x \in E : x[2] = n}}
Succs(E, n) == {e[2] : e \in {x \in E : x[1] = n}}

\* The outer graph with R replaced by the graph of the inner region.
FlatEdges(IE) ==
  {<<"oE", "n1">>, <<"n2", "oX">>}
    \cup {e \in IE : e[1] \in InnerBody /\ e[2] \in InnerBody}
    \cup {<<"n1", s>> : s \in Succs(IE, "iE") \cap InnerBody}
    \cup {<<p, "n2">> : p \in Preds(IE, "iX") \cap InnerBody}
    \cup (IF <<"iE", "iX">> \in IE THEN {<<"n1", "n2">>} ELSE {})

VARIABLES
  pc,       \* position of the driver
  round,    \* 1: first solution, 2: re-solution of the converged tree
  shape,    \* edges of the inner region
  du,       \* node -> DefUseSet (mDefs, mMayDefs, mUses)
  attr,     \* nodes that carry a PrivateDFAttr value
  in,       \* node -> IN DefinitionInfo
  out,      \* node -> OUT DefinitionInfo
  saved,    \* IN/OUT values of the first solution
  ndebug,   \* the build has assertions compiled out
  fpc,      \* position of the footprint builder / of the pass client
  inst,     \* the instruction handed to for_each_memory
  calls,    \* callbacks of for_each_memory not yet delivered
  fp,       \* the DefUseSet under construction
  nvisit,   \* number of instructions visited by the build
  ret,      \* outcome of the last call of the client
  store,    \* mNodeToDU: node -> DefUseSet object
  heap,     \* DefUseSet objects ever allocated: object -> [run, deleted]
  tpc,      \* position of the source transformation pass
  VarInfoList,  \* ClausePrinter: reduction kind -> sorted variable list
  ParallelFor,  \* ClausePrinter: the pragma text, a sequence of pieces
  rk,       \* ClausePrinter: the reduction kind the loop is at
  values,   \* findAvailableDecls: the IR values, values[1] is DI
  Available, \* findAvailableDecls: UseItr->get<Available>()
  visitor,  \* DefUseVisitor: its members
  DefRHS,   \* checkAssignmentRHS: the definition location and DeclRefIdx
  dbgValues, \* runOnFunction: the values of llvm.dbg.value and their users
  WorkSet,  \* runOnFunction: the values already looked at
  stack,    \* DefUseVisitor: the active Traverse* calls, innermost last
  Res,      \* DefUseVisitor: the result of the last traversal that returned
  nstmt     \* DefUseVisitor: number of statements of the body met so far

\* State of the footprint builder and of the pass.
fvars == <<ndebug, fpc, inst, calls, fp, nvisit, ret, store, heap>>

\* State of the OpenMP clause printer.
cvars == <<VarInfoList, ParallelFor, rk>>

\* State of findAvailableDecls.
avars == <<values, Available>>

\* State of the DefUseVisitor and of the calls in progress.
dvars == <<visitor, DefRHS>>

\* State of ClangCopyPropagation::runOnFunction.
rvars == <<dbgValues, WorkSet>>

\* State of the traversal of the function by DefUseVisitor.
svars == <<stack, Res, nstmt>>

\* State of the source transformation passes.
tvars == <<tpc, cvars, avars, dvars, rvars, svars>>

vars == <<pc, round, shape, du, attr, in, out, saved, fvars, tvars>>

(***************************************************************************)
(* LocationSet / LocationDFValue.                                          *)
(***************************************************************************)
emptyValue == {}
fullValue == Locs
intersect(this, with) == this \cap with
merge(this, with) == this \cup with
contain(S, Loc) == Loc \in S
overlap(S, Loc) == \E x \in S : Overlap(x, Loc)

EmptyDU == [Defs |-> {}, MayDefs |-> {}, Uses |-> {}]

(***************************************************************************)
(* DefUseSet                                                               *)
(***************************************************************************)
hasDef_overlap(D, Loc) == overlap(D.Defs, Loc)
hasDef_sameStart(D, Loc) == \E x \in D.Defs : x.off = Loc.off
hasDef(D, Loc) == contain(D.Defs, Loc)
hasMayDef(D, Loc) == overlap(D.MayDefs, Loc)
hasUse(D, Loc) == overlap(D.Uses, Loc)
addDef_intoMayDefs(D, Loc) == [D EXCEPT !.MayDefs = @ \cup {Loc}]
addDef(D, Loc) == [D EXCEPT !.Defs = @ \cup {Loc}]
addMayDef(D, Loc) == [D EXCEPT !.MayDefs = @ \cup {Loc}]
addUse(D, Loc) == [D EXCEPT !.Uses = @ \cup {Loc}]

(***************************************************************************)
(* DataFlowTraits<PrivateDFFwk *>                                          *)
(***************************************************************************)
topElement_emptyMust == [MustReach |-> emptyValue, MayReach |-> emptyValue]
topElement_fullMay == [MustReach |-> fullValue, MayReach |-> fullValue]
topElement == [MustReach |-> fullValue, MayReach |-> emptyValue]

boundaryCondition_full == [MustReach |-> fullValue, MayReach |-> emptyValue]
boundaryCondition == [MustReach |-> emptyValue, MayReach |-> emptyValue]

meetOperator_mergeMust(LHS, RHS) ==
  [MustReach |-> merge(RHS.MustReach, LHS.MustReach),
   MayReach |-> merge(RHS.MayReach, LHS.MayReach)]
meetOperator_noIntersect(LHS, RHS) ==
  [MustReach |-> RHS.MustReach,
   MayReach |-> merge(RHS.MayReach, LHS.MayReach)]
meetOperator(LHS, RHS) ==
  [MustReach |-> intersect(RHS.MustReach, LHS.MustReach),
   MayReach |-> merge(RHS.MayReach, LHS.MayReach)]

\* Locations whose must-reaching status a must-def of D clears.
Killed(D) == {b \in Locs : \E a \in D.Defs : Overlap(a, b)}

\* OUT value of a node with DefUseSet D and IN value V.
Out(V, D) ==
  [MustReach |-> (V.MustReach \ Killed(D)) \cup D.Defs,
   MayReach |-> V.MayReach \cup D.Defs \cup D.MayDefs]

\* Variants of the transfer function.
transferFunction_mayToMust(V, N, PV) ==
  LET newOut == [MustReach |-> (V.MustReach \ Killed(du[N])) \cup du[N].Defs
                                 \cup du[N].MayDefs,
                 MayReach |-> V.MayReach \cup du[N].Defs \cup du[N].MayDefs]
  IN  [in |-> V, out |-> newOut, changed |-> newOut # PV.out]
transferFunction_noKill(V, N, PV) ==
  LET newOut == [MustReach |-> V.MustReach \cup du[N].Defs,
                 MayReach |-> V.MayReach \cup du[N].Defs \cup du[N].MayDefs]
  IN  [in |-> V, out |-> newOut, changed |-> newOut # PV.out]
transferFunction_alwaysChanged(V, N, PV) ==
  [in |-> V, out |-> Out(V, du[N]), changed |-> TRUE]
transferFunction_skipSameIn(V, N, PV) ==
  IF V = PV.in THEN [in |-> V, out |-> PV.out, changed |-> FALSE]
  ELSE [in |-> V, out |-> Out(V, du[N]), changed |-> Out(V, du[N]) # PV.out]

\* PV is the node's current PrivateDFValue [in, out]; the result is the new
\* PrivateDFValue and the flag the function returns (OUT has changed).
transferFunction(V, N, PV) ==
  LET newOut == Out(V, du[N])
  IN  [in |-> V, out |-> newOut, changed |-> newOut # PV.out]

(***************************************************************************)
(* Iterative solver of one region's graph.                                 *)
(***************************************************************************)
\* The one element of a singleton set (the set is evaluated once).
The(S) == CHOOSE x \in S : TRUE

RECURSIVE MeetOver(_, _, _)
\* Folds meetOperator over the OUT values of the predecessors P into acc.
MeetOver(P, val, acc) ==
  IF P = {} THEN acc
  ELSE LET p == CHOOSE x \in P : TRUE
       IN  The({MeetOver(P \ {p}, val, a) : a \in {meetOperator(val[p], acc)}})

\* The node n of the pass: IN is the meet over the predecessors, OUT and the
\* changed flag come from the transfer function.
SweepNode(n, E, st) ==
  The({[in |-> [st.in EXCEPT ![n] = r.in],
        out |-> [st.out EXCEPT ![n] = r.out],
        changed |-> st.changed \/ r.changed] :
       r \in {transferFunction(V, n, [in |-> st.in[n], out |-> st.out[n]]) :
              V \in {MeetOver(Preds(E, n), st.out, topElement)}}})

RECURSIVE SweepNodes(_, _, _)
\* One pass over the non-entry nodes in order; st = [in, out, changed].
SweepNodes(order, E, st) ==
  IF order = <<>> THEN st
  ELSE The({SweepNodes(Tail(order), E, x) : x \in {SweepNode(Head(order), E, st)}})

\* setValue(topElement) on every node, setValue(boundaryCondition) on the entry.
InitValues(val, nodes, entry) ==
  [n \in DOMAIN val |->
     IF n = entry THEN boundaryCondition
     ELSE IF n \in nodes THEN topElement
     ELSE val[n]]

(***************************************************************************)
(* PrivateDFFwk::collapse                                                  *)
(***************************************************************************)
UnionOf(SS) == UNION SS

\* Locations must-defined at the exit of the solved inner region.
ExitingDefs == out["iX"].MustReach
\* Locations written by some node of the inner region.
WrittenIn == UnionOf({du[n].Defs \cup du[n].MayDefs : n \in InnerBody})
\* Uses of a node that no must-definition reaches.
ExposedUses ==
  UnionOf({{u \in du[n].Uses : ~contain(in[n].MustReach, u)} : n \in InnerBody})

collapse(D) ==
  [Defs |-> D.Defs \cup ExitingDefs,
   MayDefs |-> D.MayDefs \cup (WrittenIn \ ExitingDefs),
   Uses |-> D.Uses \cup ExposedUses]

(***************************************************************************)
(* Instructions and for_each_memory (MemoryAccessUtils.h)                  *)
(***************************************************************************)
\* Largest number of actual parameters of a call.
MaxArgs == 2

\* The location of a null or undef pointer: no byte of any object.
NullLoc == [off |-> 0, size |-> 0]

AccessInfo == {"No", "May", "Must"}

\* Pointer operands: a pointer to a location, undef, or the null constant.
Ptrs ==
  {[kind |-> "valid", loc |-> L] : L \in Locs}
    \cup {[kind |-> "undef", loc |-> NullLoc], [kind |-> "null", loc |-> NullLoc]}
\* Actual parameters: a pointer to a location, an undef pointer, or a value
\* of a non-pointer type.
ArgVals ==
  {[kind |-> "valid", loc |-> LocB], [kind |-> "undef", loc |-> NullLoc],
   [kind |-> "int", loc |-> NullLoc]}
ArgLists == UNION {[1..k -> ArgVals] : k \in 0..MaxArgs}

MemOpcodes == {"load", "vaarg", "atomicrmw", "cmpxchg", "store"}
CallOpcodes == {"call", "invoke"}

\* mayReadFromMemory / mayWriteToMemory of the memory opcodes: a load always
\* reads and writes only when it is ordered, a store the other way round.
MemFlags(o) ==
  IF o = "load" THEN {<<TRUE, FALSE>>, <<TRUE, TRUE>>}
  ELSE IF o = "store" THEN {<<FALSE, TRUE>>, <<TRUE, TRUE>>}
  ELSE {<<TRUE, TRUE>>}

\* Indices (from 0) of the actual parameters of pointer type.
PtrArgs(args) == {i \in 0..(Len(args) - 1) : args[i + 1].kind # "int"}

MemInsts ==
  {[op |-> o, ptr |-> p.kind, loc |-> p.loc, mayRead |-> f[1],
    mayWrite |-> f[2], nullDefined |-> nd, kind |-> "none", marker |-> FALSE,
    args |-> <<>>, memArgs |-> {}, argMemOnly |-> FALSE] :
     o \in MemOpcodes, p \in Ptrs, f \in {<<TRUE, FALSE>>, <<FALSE, TRUE>>,
                                         <<TRUE, TRUE>>},
     nd \in BOOLEAN}

\* Any other opcode (fence, add, ...): it may or may not touch memory.
OtherInsts ==
  {[op |-> "other", ptr |-> "none", loc |-> NullLoc, mayRead |-> r,
    mayWrite |-> w, nullDefined |-> nd, kind |-> "none", marker |-> FALSE,
    args |-> <<>>, memArgs |-> {}, argMemOnly |-> FALSE] :
     r \in BOOLEAN, w \in BOOLEAN, nd \in BOOLEAN}

\* Calls: to an intrinsic (a memory marker or not), to a library function or
\* to any other callee.  memArgs are the parameters the known function's
\* traits name as memory; mayRead is ~doesNotReadMemory(), mayWrite is
\* ~onlyReadsMemory().
CallKinds ==
  {<<"intrinsic", TRUE>>, <<"intrinsic", FALSE>>, <<"libfunc", FALSE>>,
   <<"plain", FALSE>>}
CallInsts ==
  UNION
    {{[op |-> o, ptr |-> "none", loc |-> NullLoc, mayRead |-> r,
       mayWrite |-> w, nullDefined |-> FALSE, kind |-> k[1], marker |-> k[2],
       args |-> a, memArgs |-> m, argMemOnly |-> amo] :
        o \in CallOpcodes, r \in BOOLEAN, w \in BOOLEAN, amo \in BOOLEAN,
        m \in IF k[1] = "plain" THEN {{}} ELSE SUBSET PtrArgs(a)} :
     k \in CallKinds, a \in ArgLists}

Insts ==
  {I \in MemInsts : <<I.mayRead, I.mayWrite>> \in MemFlags(I.op)}
    \cup OtherInsts \cup CallInsts

mayReadFromMemory(I) == I.mayRead
mayWriteToMemory(I) == I.mayWrite
mayReadOrWriteMemory(I) == I.mayRead \/ I.mayWrite
doesNotReadMemory(I) == ~I.mayRead
onlyReadsMemory(I) == ~I.mayWrite
onlyAccessesArgMemory(I) == I.argMemOnly

\* One invocation of a callback.
FuncCall(Loc, OpIdx, IsRead, IsWrite) ==
  [fn |-> "Func", loc |-> Loc, idx |-> OpIdx, read |-> IsRead,
   write |-> IsWrite]
UnknownCall(IsRead, IsWrite) ==
  [fn |-> "UnknownFunc", loc |-> NullLoc, idx |-> -1, read |-> IsRead,
   write |-> IsWrite]

isValidPtr(I, k) ==
  IF k = "undef" THEN FALSE
  ELSE IF k = "null" THEN I.nullDefined
  ELSE TRUE

RECURSIVE ArgCalls(_, _, _, _, _)
\* Func for the parameters idxs from the index i on, in increasing order.
ArgCalls(I, idxs, i, IsRead, IsWrite) ==
  IF i >= Len(I.args) THEN <<>>
  ELSE (IF i \in idxs /\ isValidPtr(I, I.args[i + 1].kind)
        THEN <<FuncCall(I.args[i + 1].loc, i, IsRead, IsWrite)>>
        ELSE <<>>)
         \o ArgCalls(I, idxs, i + 1, IsRead, IsWrite)

\* Func for the memory parameters of the call.
ParamCalls_ignoreMarker(I) ==
  ArgCalls(I, IF I.kind = "plain" THEN PtrArgs(I.args) ELSE I.memArgs, 0,
           IF doesNotReadMemory(I) THEN "No" ELSE "May",
           IF onlyReadsMemory(I) THEN "No" ELSE "May")
ParamCalls(I) ==
  IF I.kind = "intrinsic"
  THEN ArgCalls(I, I.memArgs, 0,
                IF doesNotReadMemory(I) \/ I.marker THEN "No" ELSE "May",
                IF onlyReadsMemory(I) \/ I.marker THEN "No" ELSE "May")
  ELSE IF I.kind = "libfunc"
  THEN ArgCalls(I, I.memArgs, 0,
                IF doesNotReadMemory(I) THEN "No" ELSE "May",
                IF onlyReadsMemory(I) THEN "No" ELSE "May")
  ELSE ArgCalls(I, PtrArgs(I.args), 0,
                IF doesNotReadMemory(I) THEN "No" ELSE "May",
                IF onlyReadsMemory(I) THEN "No" ELSE "May")

traverseActualParams_alwaysUnknown(I) ==
  ParamCalls(I)
    \o <<UnknownCall(IF doesNotReadMemory(I) THEN "No" ELSE "May",
                     IF onlyReadsMemory(I) THEN "No" ELSE "May")>>
traverseActualParams(I) ==
  ParamCalls(I)
    \o (IF ~onlyAccessesArgMemory(I)
        THEN <<UnknownCall(IF doesNotReadMemory(I) THEN "No" ELSE "May",
                           IF onlyReadsMemory(I) THEN "No" ELSE "May")>>
        ELSE <<>>)

\* The callbacks for_each_memory makes for the instruction I, in order.
for_each_memory_storeAsLoad(I) ==
  IF I.op \in MemOpcodes
  THEN IF ~isValidPtr(I, I.ptr) THEN <<>>
       ELSE <<FuncCall(I.loc, 0,
                       IF mayReadFromMemory(I) THEN "Must" ELSE "No",
                       IF mayWriteToMemory(I) THEN "Must" ELSE "No")>>
  ELSE IF I.op \in CallOpcodes THEN traverseActualParams(I)
  ELSE IF ~mayReadOrWriteMemory(I) THEN <<>>
  ELSE <<UnknownCall(IF mayReadFromMemory(I) THEN "May" ELSE "No",
                     IF mayWriteToMemory(I) THEN "May" ELSE "No")>>
for_each_memory(I) ==
  IF I.op \in {"load", "vaarg", "atomicrmw", "cmpxchg"}
  THEN IF ~isValidPtr(I, I.ptr) THEN <<>>
       ELSE <<FuncCall(I.loc, 0,
                       IF mayReadFromMemory(I) THEN "Must" ELSE "No",
                       IF mayWriteToMemory(I) THEN "Must" ELSE "No")>>
  ELSE IF I.op = "store"
  THEN IF ~isValidPtr(I, I.ptr) THEN <<>>
       ELSE <<FuncCall(I.loc, 1, "No", "Must")>>
  ELSE IF I.op \in CallOpcodes THEN traverseActualParams(I)
  ELSE IF ~mayReadOrWriteMemory(I) THEN <<>>
  ELSE <<UnknownCall(IF mayReadFromMemory(I) THEN "May" ELSE "No",
                     IF mayWriteToMemory(I) THEN "May" ELSE "No")>>

(***************************************************************************)
(* DefUseSet with all its sets, and the per-node footprint builder         *)
(***************************************************************************)
\* Largest number of instructions of one node.
MaxInsts == 3

\* Pointers whose address is evaluated.
PtrVals == {"p", "q"}
\* Identities of the instructions of a node: their position in the node.
InstIds == 1..MaxInsts

EmptyFootprint ==
  [Defs |-> {}, MayDefs |-> {}, Uses |-> {}, Explicit |-> {},
   AddressAccesses |-> {}, UnknownInsts |-> {}]

\* insert(x).second of LocationSet and of SmallPtrSet.
insert(S, x) == [set |-> S \cup {x}, second |-> x \notin S]

\* The value the insertions return.
addDefRet_always(D, Loc) == TRUE
addDefRet(D, Loc) == insert(D.Defs, Loc).second
addMayDefRet(D, Loc) == insert(D.MayDefs, Loc).second
addUseRet(D, Loc) == insert(D.Uses, Loc).second
addAddressAccess(D, Ptr) == [D EXCEPT !.AddressAccesses = insert(@, Ptr).set]
addAddressAccessRet(D, Ptr) == insert(D.AddressAccesses, Ptr).second
addUnknownInst_assign(D, I) == [D EXCEPT !.UnknownInsts = {I}]
addUnknownInst(D, I) == [D EXCEPT !.UnknownInsts = insert(@, I).set]
addUnknownInstRet(D, I) == insert(D.UnknownInsts, I).second
addExplicitAccess(D, Loc) == [D EXCEPT !.Explicit = @ \cup {Loc}]

\* Every location the footprint has recorded so far.
Tracked(D) == D.Defs \cup D.MayDefs \cup D.Uses \cup D.Explicit

\* The builder's callback for one access (Loc, IsRead, IsWrite) of an
\* instruction; the read is looked at before the write is recorded.
OnFunc(D, c) ==
  LET D1 == IF c.read # "No" /\ ~hasDef(D, c.loc) THEN addUse(D, c.loc) ELSE D
      D2 == IF c.write = "Must" THEN addDef(D1, c.loc)
            ELSE IF c.write = "May" THEN addMayDef(D1, c.loc)
            ELSE D1
  IN  IF c.read # "No" \/ c.write # "No" THEN addExplicitAccess(D2, c.loc)
      ELSE D2

\* The builder's callback for an instruction with an unresolved effect.
OnUnknownFunc(D, I) ==
  [addUnknownInst(D, I) EXCEPT !.MayDefs = @ \cup Tracked(D),
                               !.Uses = @ \cup Tracked(D)]

\* An instruction that touches no memory.
NoInst ==
  [op |-> "other", ptr |-> "none", loc |-> NullLoc, mayRead |-> FALSE,
   mayWrite |-> FALSE, nullDefined |-> FALSE, kind |-> "none",
   marker |-> FALSE, args |-> <<>>, memArgs |-> {}, argMemOnly |-> FALSE]

\* The instructions of the nodes under construction.
StreamInsts ==
  {I \in Insts :
     /\ ~I.nullDefined
     /\ I.op \in {"load", "store", "atomicrmw", "call", "other"}
     /\ I.ptr \in {"valid", "none"}
     /\ I.kind \in {"none", "plain"}
     /\ Len(I.args) <= 1
     /\ \A i \in DOMAIN I.args : I.args[i].kind = "valid"
     /\ I.op \in {"load", "store"} => ~(I.mayRead /\ I.mayWrite)
     /\ I.op = "other" => I.mayRead /\ I.mayWrite}

(***************************************************************************)
(* ClausePrinter of the OpenMP parallelization (OpenMPAutoPar.cpp)         *)
(***************************************************************************)
\* Number of variables of the loop that may be reduction variables.
MaxVars == 3

VarNames == <<"a", "b", "c", "d">>
LoopVars == {VarNames[i] : i \in 1..MaxVars}

\* trait::Reduction::Kind, from RK_First up to RK_NumberOf.
ReductionKinds ==
  <<"RK_Add", "RK_Mult", "RK_Or", "RK_And", "RK_Xor", "RK_Max", "RK_Min">>
RK_First == 0
RK_NumberOf == Len(ReductionKinds)

\* SortedVarListT: the names of a set of variables in increasing order.
SortedVarList(S) == SelectSeq(VarNames, LAMBDA v : v \in S)

\* The text before the clauses.
PragmaPrefix == <<"#pragma omp parallel for default(shared)">>

\* The pieces the switch appends for the kind k.
ReductionOperator(k) ==
  CASE k = "RK_Add" -> <<"+:">>
    [] k = "RK_Mult" -> <<"*:">>
    [] k = "RK_Or" -> <<"|:">>
    [] k = "RK_And" -> <<"&:">>
    [] k = "RK_Xor" -> <<>>
    [] k = "RK_Max" -> <<"max:">>
    [] k = "RK_Min" -> <<"min:">>

RECURSIVE VarItems(_, _)
\* The first variable, then ", " and the variable for every further one.
VarItems(L, i) ==
  IF i > Len(L) THEN <<>>
  ELSE (IF i = 1 THEN <<L[i]>> ELSE <<", ", L[i]>>) \o VarItems(L, i + 1)

\* One iteration of the loop over the reduction kinds: the pragma after it.
PrintReduction(PF, List, i) ==
  IF List[i] = <<>> THEN PF
  ELSE PF \o <<"reduction", "(">> \o ReductionOperator(ReductionKinds[i + 1])
          \o VarItems(List[i], 1) \o <<")">>

\* The clause printer is not running.
ClauseIdle ==
  /\ VarInfoList = [i \in RK_First..(RK_NumberOf - 1) |-> <<>>]
  /\ ParallelFor = <<>>
  /\ rk = RK_First

(***************************************************************************)
(* Copy propagation: findAvailableDecls (CopyPropagation.cpp)              *)
(***************************************************************************)
\* Number of IR values: the defining instruction and its possible operands.
MaxValues == 3

ValueIds == 1..MaxValues
DI == 1

\* A value is a call (it may read memory, write memory, throw), a function
\* or any other value (an instruction, an argument, a global variable); user
\* is the value it is an operand of (0: of none), matched tells whether a
\* declaration is found for it (getDeclForMangledName, DIMatcher).
IRValues ==
  [kind : {"call"}, mayRead : BOOLEAN, mayWrite : BOOLEAN,
   mayThrow : BOOLEAN, matched : {TRUE}]
    \cup [kind : {"function"}, mayRead : {FALSE}, mayWrite : {FALSE},
          mayThrow : {FALSE}, matched : {TRUE}]
    \cup [kind : {"value"}, mayRead : {FALSE}, mayWrite : {FALSE},
          mayThrow : {FALSE}, matched : BOOLEAN]

\* The declaration matched with the value v.
DeclOf(v) == v

RECURSIVE OperandClosure(_, _, _)
\* The loop over OpWorkList: Ops when the work list is empty.
OperandClosure(vals, Ops, OpWorkList) ==
  IF OpWorkList = {} THEN Ops
  ELSE LET CurrOp == CHOOSE w \in OpWorkList : TRUE
           New == {Op \in ValueIds : vals[Op].user = CurrOp} \ Ops
       IN  OperandClosure(vals, Ops \cup New,
                          (OpWorkList \ {CurrOp}) \cup New)

\* The call may have a side effect and prevents the substitution.
PreventsSubstitution(Op) ==
  Op.kind = "call" /\ ((Op.mayWrite /\ Op.mayRead) \/ Op.mayThrow)

RECURSIVE ScanOps(_, _, _, _)
\* The loop over Ops in the order of iteration: the Available set after it.
ScanOps(vals, order, i, Avail) ==
  IF i > Len(order) THEN Avail
  ELSE IF PreventsSubstitution(vals[order[i]]) THEN {}
  ELSE ScanOps(vals, order, i + 1,
               IF vals[order[i]].matched THEN Avail \cup {DeclOf(order[i])}
               ELSE Avail)

\* The orders in which a set may be iterated.
Orders(S) ==
  {o \in [1..Cardinality(S) -> S] : \A i, j \in DOMAIN o : i # j => o[i] # o[j]}

\* One unused value.
NoIRValue ==
  [kind |-> "value", mayRead |-> FALSE, mayWrite |-> FALSE,
   mayThrow |-> FALSE, matched |-> FALSE, user |-> 0]

AvailIdle ==
  /\ values = [v \in ValueIds |-> NoIRValue]
  /\ Available = {}

(***************************************************************************)
(* Copy propagation: DefUseVisitor (CopyPropagation.cpp)                   *)
(***************************************************************************)
\* Declarations: a name and the place of the declaration (0: file scope,
\* 1: parameter of the function, n + 1: the n-th statement of the body).
FileScope == 0
ParamScope == 1
NamedDecl(n, at) == [name |-> n, at |-> at]
isFileContext(D) == D.at = FileScope

\* A map with the entry k -> v added or replaced.
Put(f, k, v) == [x \in DOMAIN f \cup {k} |-> IF x = k THEN v ELSE f[x]]
EmptyMap == [x \in {} |-> {}]

Names == {"f", "x", "y"}

\* The members of a DefUseVisitor after construction.
NewVisitor ==
  [mUseLocs |-> EmptyMap, mDefLocs |-> EmptyMap, mReplacement |-> <<>>,
   mVisibleDecls |-> [n \in Names |-> <<>>], mDeclsInScope |-> <<>>,
   mDeclRefs |-> <<>>, mCollectDecls |-> FALSE, mNotPropagate |-> {},
   mClauses |-> {}, mDeclsToPropagate |-> {}, mDeclPropagateScope |-> "null",
   mActivePropagate |-> FALSE, mRewriter |-> {}]

RECURSIVE ScanDeclRefs(_, _, _, _)
\* The inner loop of checkAssignmentRHS over mDeclRefs from DeclRefIdx on.
ScanDeclRefs(Refs, DeclRefIdx, Avail, RHSDecls) ==
  IF DeclRefIdx >= Len(Refs)
  THEN [DeclRefIdx |-> DeclRefIdx, AllAvailable |-> TRUE,
        RHSDecls |-> RHSDecls]
  ELSE IF Refs[DeclRefIdx + 1] \notin Avail
  THEN [DeclRefIdx |-> DeclRefIdx, AllAvailable |-> FALSE,
        RHSDecls |-> RHSDecls \cup {Refs[DeclRefIdx + 1]}]
  ELSE ScanDeclRefs(Refs, DeclRefIdx + 1, Avail,
                    RHSDecls \cup {Refs[DeclRefIdx + 1]})

\* The candidates of the usage U get the replacement (DefStr, RHSDecls).
SetReplacement(UseLocs, U, DefStr, RHSDecls) ==
  LET Candidates ==
        IF U.Usage \in DOMAIN UseLocs THEN UseLocs[U.Usage] ELSE EmptyMap
      Replaced == {U.Candidate[i] : i \in DOMAIN U.Candidate} \ RHSDecls
  IN  Put(UseLocs, U.Usage,
          [D \in DOMAIN Candidates \cup Replaced |->
             IF D \in Replaced
             THEN [Definition |-> DefStr, Access |-> RHSDecls]
             ELSE Candidates[D]])

RECURSIVE checkAssignmentRHS(_, _, _, _, _, _, _, _)
\* The loop over the usages of the definition, from the u-th one on in the
\* order of iteration: mUseLocs after it.
checkAssignmentRHS(DefStr, Refs, Usages, u, DeclRefIdx, IsAllDeclRefAvailable, RHSDecls, UseLocs) ==
  IF u > Len(Usages) THEN UseLocs
  ELSE LET scan == ScanDeclRefs(Refs, DeclRefIdx, Usages[u].Available,
                                RHSDecls)
           IsAll == IsAllDeclRefAvailable /\ scan.AllAvailable
       IN  checkAssignmentRHS(DefStr, Refs, Usages, u + 1, scan.DeclRefIdx,
                              IsAll, scan.RHSDecls,
                              IF IsAll
                              THEN SetReplacement(UseLocs, Usages[u], DefStr,
                                                  scan.RHSDecls)
                              ELSE UseLocs)

\* A statement: its number in the order of the traversal (1: the body of
\* the function, n + 1: the n-th statement of the body), its class and
\* whether there is a macro in it.
Stmt(id, class, macro) == [id |-> id, class |-> class, macro |-> macro]
hasMacro(S) == S.macro

\* A reference to a declaration: the statement, the child of the statement
\* it is in and the classes of the nodes from this child down to the
\* DeclRefExpr.
DeclRefExpr(S, child, path) == [S |-> S, child |-> child, path |-> path]

\* Assignments and increments or decrements.
isAssignmentOp(S) == S.class = "BinAssign"
isIncrementDecrementOp(S) == S.class = "UnaryIncDec"

RECURSIVE FirstChildChain(_, _, _, _)
\* The loop of excludeIfAssignment down the first children of S from the
\* i-th one on: the references that are not to be replaced after it.
FirstChildChain(S, chain, i, AssignDeclRef) ==
  IF i > Len(chain) THEN AssignDeclRef
  ELSE IF chain[i] = "DeclRefExpr"
  THEN FirstChildChain(S, chain, i + 1,
                       {DeclRefExpr(S, 1, SubSeq(chain, 1, i))})
  ELSE IF chain[i] \in {"BinaryOperator", "ArraySubscriptExpr", "CallExpr"}
  THEN {}
  ELSE FirstChildChain(S, chain, i + 1, AssignDeclRef)

\* excludeIfAssignment for the statement S with the given first children.
excludeIfAssignment(V, S, chain) ==
  IF isAssignmentOp(S) \/ isIncrementDecrementOp(S)
  THEN [V EXCEPT !.mNotPropagate = @ \cup FirstChildChain(S, chain, 1, {})]
  ELSE V

enterInScope(V) == [V EXCEPT !.mDeclsInScope = Append(@, <<>>)]

RECURSIVE PopDecls(_, _, _)
\* The loop of exitFromScope over the declarations of the top scope.
PopDecls(Visible, Idxs, i) ==
  IF i > Len(Idxs) THEN Visible
  ELSE PopDecls([Visible EXCEPT ![Idxs[i]] = SubSeq(@, 1, Len(@) - 1)],
                Idxs, i + 1)

\* The assertion of exitFromScope and of VisitNamedDecl.
ScopeExists(V) == V.mDeclsInScope # <<>>

exitFromScope(V) ==
  IF ~ScopeExists(V) THEN V
  ELSE [V EXCEPT
          !.mVisibleDecls = PopDecls(@, V.mDeclsInScope[Len(V.mDeclsInScope)],
                                     1),
          !.mDeclsInScope = SubSeq(@, 1, Len(@) - 1)]

VisitNamedDecl(V, ND) ==
  IF ~ScopeExists(V) THEN V
  ELSE [V EXCEPT
          !.mVisibleDecls[ND.name] = Append(@, ND),
          !.mDeclsInScope[Len(V.mDeclsInScope)] = Append(@, ND.name)]

\* VisitStmt for a statement of the given class that declares Decls.
VisitStmt(V, S, Decls) ==
  IF V.mClauses = {} THEN V
  ELSE IF S.class = "DeclStmt"
  THEN IF hasMacro(V.mDeclPropagateScope)
       THEN [V EXCEPT !.mDeclsToPropagate = {}]
       ELSE [V EXCEPT !.mDeclsToPropagate = @ \cup Decls, !.mClauses = {}]
  ELSE [V EXCEPT !.mClauses = {}]

\* TraverseStmt before the base traversal of S, a statement at the location
\* Loc that is not a pragma, and after it.
BeginStmt(V, S, Loc) ==
  [V EXCEPT
     !.mDeclPropagateScope = IF V.mDeclsToPropagate = {} THEN S ELSE @,
     !.mReplacement = IF Loc \in DOMAIN V.mUseLocs THEN Append(@, Loc) ELSE @]

EndStmt(V, pushed, StashPropagateScope) ==
  [V EXCEPT
     !.mReplacement = IF pushed THEN SubSeq(@, 1, Len(@) - 1) ELSE @,
     !.mDeclPropagateScope = StashPropagateScope]

storeDeclRef(V, ND) ==
  IF V.mCollectDecls THEN [V EXCEPT !.mDeclRefs = Append(@, ND)] ELSE V

\* The test of VisitDeclRefExpr for a declaration accessed by a replacement.
IsHidden(V, AccessDecl) ==
  /\ \/ V.mVisibleDecls[AccessDecl.name] = <<>>
     \/ V.mVisibleDecls[AccessDecl.name]
          [Len(V.mVisibleDecls[AccessDecl.name])] # AccessDecl
  /\ ~isFileContext(AccessDecl)

\* VisitDeclRefExpr without the test of mNotPropagate.
VisitDeclRefExpr_ignoreNotPropagate(V, Ref, ND) ==
  LET W == storeDeclRef(V, ND)
      Top == W.mUseLocs[W.mReplacement[Len(W.mReplacement)]]
  IN  IF W.mReplacement = <<>> THEN W
      ELSE IF ND \notin W.mDeclsToPropagate /\ ~W.mActivePropagate THEN W
      ELSE IF ND \notin DOMAIN Top THEN W
      ELSE IF \E AccessDecl \in Top[ND].Access : IsHidden(W, AccessDecl)
      THEN W
      ELSE [W EXCEPT
              !.mRewriter = @ \cup {[Ref |-> Ref,
                                     Text |-> Top[ND].Definition]}]

\* VisitDeclRefExpr for the reference Ref to the declaration ND.
VisitDeclRefExpr(V, Ref, ND) ==
  LET W == storeDeclRef(V, ND)
      Top == W.mUseLocs[W.mReplacement[Len(W.mReplacement)]]
  IN  IF W.mReplacement = <<>> \/ Ref \in W.mNotPropagate THEN W
      ELSE IF ND \notin W.mDeclsToPropagate /\ ~W.mActivePropagate THEN W
      ELSE IF ND \notin DOMAIN Top THEN W
      ELSE IF \E AccessDecl \in Top[ND].Access : IsHidden(W, AccessDecl)
      THEN W
      ELSE [W EXCEPT
              !.mRewriter = @ \cup {[Ref |-> Ref,
                                     Text |-> Top[ND].Definition]}]

\* The visitor is not running.
VisitorIdle ==
  /\ visitor = NewVisitor
  /\ DefRHS = [Definition |-> "null", DeclRefIdx |-> 0]

(***************************************************************************)
(* Copy propagation: the search for candidates in runOnFunction            *)
(***************************************************************************)
\* Number of values described by a llvm.dbg.value, and of instructions that
\* use them.
MaxDefs == 2
MaxUsers == 2

\* The values: constants and arguments of the function (for these
\* rememberPossibleAssignment returns at once), with the text
\* unparseReplacement gives and DIDef, the variable the value belongs to, if
\* there is one.
DefValues ==
  {[DefStr |-> "1", DIDef |-> {}], [DefStr |-> "2", DIDef |-> {}],
   [DefStr |-> "y", DIDef |-> {NamedDecl("y", ParamScope)}],
   [DefStr |-> "x", DIDef |-> {NamedDecl("x", ParamScope)}]}

\* The variable of DILocs: the one that holds the value at the user.
DIUse == NamedDecl("x", ParamScope)

\* The body of the loop over DILocs for one use of Def at the location Loc:
\* the replacements after it, and whether the assertion has failed.
AddCandidate(UseLocs, Def, Loc, assertions) ==
  LET Candidates == IF Loc \in DOMAIN UseLocs THEN UseLocs[Loc] ELSE EmptyMap
      Created == Put(UseLocs, Loc, Candidates)
      Old == IF DIUse \in DOMAIN Candidates THEN Candidates[DIUse].Access
             ELSE {}
  IN  IF Def.DefStr = DIUse.name
      THEN [failed |-> FALSE, UseLocs |-> Created]
      ELSE IF /\ assertions
              /\ DIUse \in DOMAIN Candidates
              /\ Candidates[DIUse].Definition # Def.DefStr
      THEN [failed |-> TRUE, UseLocs |-> Created]
      ELSE [failed |-> FALSE,
            UseLocs |->
              Put(UseLocs, Loc,
                  Put(Candidates, DIUse,
                      [Definition |-> Def.DefStr,
                       Access |-> Old \cup Def.DIDef]))]

RECURSIVE AddCandidates(_, _, _, _, _)
\* The loop over the uses of Def from the i-th one on.
AddCandidates(UseLocs, Def, Uses, i, assertions) ==
  IF i > Len(Uses) THEN [failed |-> FALSE, UseLocs |-> UseLocs]
  ELSE LET One == AddCandidate(UseLocs, Def, Uses[i], assertions)
       IN  IF One.failed THEN One
           ELSE AddCandidates(One.UseLocs, Def, Uses, i + 1, assertions)

RunIdle ==
  /\ dbgValues = <<>>
  /\ WorkSet = {}

\* No traversal has started.
TraverseIdle ==
  /\ stack = <<>>
  /\ Res = TRUE
  /\ nstmt = 0

\* No source transformation pass is running.
TransformIdle ==
  /\ tpc = "idle"
  /\ ClauseIdle
  /\ AvailIdle
  /\ VisitorIdle
  /\ RunIdle
  /\ TraverseIdle

(***************************************************************************)
(* Actions                                                                 *)
(***************************************************************************)
NoValue == [MustReach |-> emptyValue, MayReach |-> emptyValue]

NumAcc ==
  LET RECURSIVE Sum(_)
      Sum(S) == IF S = {} THEN 0
                ELSE LET n == CHOOSE x \in S : TRUE
                     IN  Cardinality(du[n].Defs) + Cardinality(du[n].MayDefs)
                           + Cardinality(du[n].Uses) + Sum(S \ {n})
  IN  Sum(BuildNodes)

\* Nodes of the pass's store and the DefUseSet objects it may allocate.
PassNodes == {"n1", "R"}
NoObject == 0

\* The builder and the pass are not running.
FootprintIdle ==
  /\ ndebug = FALSE
  /\ fpc = "idle"
  /\ inst = NoInst
  /\ calls = <<>>
  /\ fp = EmptyFootprint
  /\ nvisit = 0
  /\ ret = "none"
  /\ store = [n \in PassNodes |-> NoObject]
  /\ heap = <<>>

Init ==
  /\ pc = "build"
  /\ round = 1
  /\ shape \in InnerShapes
  /\ du = [n \in AllNodes |-> EmptyDU]
  /\ attr = {}
  /\ in = [n \in AllNodes |-> NoValue]
  /\ out = [n \in AllNodes |-> NoValue]
  /\ saved = [in |-> [n \in AllNodes |-> NoValue],
              out |-> [n \in AllNodes |-> NoValue]]
  /\ FootprintIdle
  /\ TransformIdle

AddDef(n, Loc) ==
  /\ pc = "build"
  /\ NumAcc < MaxAcc
  /\ du' = [du EXCEPT ![n] = addDef(@, Loc)]
  /\ UNCHANGED <<pc, round, shape, attr, in, out, saved>>
  /\ UNCHANGED <<fvars, tvars>>

AddMayDef(n, Loc) ==
  /\ pc = "build"
  /\ NumAcc < MaxAcc
  /\ du' = [du EXCEPT ![n] = addMayDef(@, Loc)]
  /\ UNCHANGED <<pc, round, shape, attr, in, out, saved>>
  /\ UNCHANGED <<fvars, tvars>>

AddUse(n, Loc) ==
  /\ pc = "build"
  /\ NumAcc < MaxAcc
  /\ du' = [du EXCEPT ![n] = addUse(@, Loc)]
  /\ UNCHANGED <<pc, round, shape, attr, in, out, saved>>
  /\ UNCHANGED <<fvars, tvars>>

\* The solver starts on the inner region: every node gets its initial value.
InitInner ==
  /\ pc \in {"build", "init_i"}
  /\ attr' = attr \cup InnerNodes
  /\ out' = InitValues(out, InnerNodes, "iE")
  /\ pc' = "sweep_i"
  /\ UNCHANGED <<round, shape, du, in, saved>>
  /\ UNCHANGED <<fvars, tvars>>

SweepInner ==
  /\ pc = "sweep_i"
  /\ \E st \in {SweepNodes(InnerOrder, shape,
                            [in |-> in, out |-> out, changed |-> FALSE])} :
         /\ in' = st.in
         /\ out' = st.out
         /\ pc' = IF st.changed THEN "sweep_i" ELSE "collapse"
  /\ UNCHANGED <<round, shape, du, attr, saved>>
  /\ UNCHANGED <<fvars, tvars>>

Collapse ==
  /\ pc = "collapse"
  /\ du' = [du EXCEPT !["R"] = collapse(@)]
  /\ pc' = "init_o"
  /\ UNCHANGED <<round, shape, attr, in, out, saved>>
  /\ UNCHANGED <<fvars, tvars>>

InitOuter ==
  /\ pc = "init_o"
  /\ attr' = attr \cup OuterNodes
  /\ out' = InitValues(out, OuterNodes, "oE")
  /\ pc' = "sweep_o"
  /\ UNCHANGED <<round, shape, du, in, saved>>
  /\ UNCHANGED <<fvars, tvars>>

SweepOuter ==
  /\ pc = "sweep_o"
  /\ \E st \in {SweepNodes(OuterOrder, OuterEdges,
                            [in |-> in, out |-> out, changed |-> FALSE])} :
         /\ in' = st.in
         /\ out' = st.out
         /\ pc' = IF st.changed THEN "sweep_o" ELSE "done"
  /\ UNCHANGED <<round, shape, du, attr, saved>>
  /\ UNCHANGED <<fvars, tvars>>

\* The driver solves the converged region tree once more.
Resolve ==
  /\ pc = "done"
  /\ round = 1
  /\ saved' = [in |-> in, out |-> out]
  /\ round' = 2
  /\ pc' = "init_i"
  /\ UNCHANGED <<shape, du, attr, in, out>>
  /\ UNCHANGED <<fvars, tvars>>

Next ==
  \/ \E n \in BuildNodes, Loc \in Locs : AddDef(n, Loc)
  \/ \E n \in InnerBody, Loc \in Locs : AddMayDef(n, Loc)
  \/ \E n \in UseNodes, Loc \in Locs : AddUse(n, Loc)
  \/ InitInner
  \/ SweepInner
  \/ Collapse
  \/ InitOuter
  \/ SweepOuter
  \/ Resolve

Spec == Init /\ [][Next]_vars

\* The driver and the solver are sequential loops without suspension points:
\* a step of the solution that can be taken is eventually taken.
SolverStep ==
  InitInner \/ SweepInner \/ Collapse \/ InitOuter \/ SweepOuter \/ Resolve

FairSpec == Spec /\ WF_vars(SolverStep)

TypeOK ==
  /\ pc \in {"build", "init_i", "sweep_i", "collapse", "init_o", "sweep_o",
             "done"}
  /\ round \in {1, 2}
  /\ \A n \in AllNodes : out[n].MustReach \subseteq Locs
  /\ ndebug \in BOOLEAN
  /\ fpc \in {"idle", "enum", "enumerated", "build", "client", "pass",
              "aborted"}
  /\ nvisit \in 0..MaxInsts

(***************************************************************************)
(* for_each_memory applied to one instruction                              *)
(***************************************************************************)
\* The solver is not running.
SolverIdle ==
  /\ pc = "build"
  /\ round = 1
  /\ shape = {<<"iE", "a">>, <<"a", "b">>, <<"b", "iX">>}
  /\ du = [n \in AllNodes |-> EmptyDU]
  /\ attr = {}
  /\ in = [n \in AllNodes |-> NoValue]
  /\ out = [n \in AllNodes |-> NoValue]
  /\ saved = [in |-> [n \in AllNodes |-> NoValue],
              out |-> [n \in AllNodes |-> NoValue]]

SolverVars == <<pc, round, shape, du, attr, in, out, saved>>

AccessInit ==
  /\ SolverIdle
  /\ ndebug = FALSE
  /\ fpc = "enum"
  /\ inst \in Insts
  /\ calls = <<>>
  /\ fp = EmptyFootprint
  /\ nvisit = 0
  /\ ret = "none"
  /\ store = [n \in PassNodes |-> NoObject]
  /\ heap = <<>>
  /\ TransformIdle

\* for_each_memory(I, TLI, Func, UnknownFunc) with callbacks that record
\* their invocation.
ForEachMemory ==
  /\ fpc = "enum"
  /\ calls' = for_each_memory(inst)
  /\ fpc' = "enumerated"
  /\ UNCHANGED <<SolverVars, tvars, ndebug, inst, fp, nvisit, ret, store, heap>>

AccessNext == ForEachMemory

AccessSpec == AccessInit /\ [][AccessNext]_vars

(***************************************************************************)
(* The footprint of a node built from its instructions                     *)
(***************************************************************************)
BuildInit ==
  /\ SolverIdle
  /\ ndebug = FALSE
  /\ fpc = "build"
  /\ inst = NoInst
  /\ calls = <<>>
  /\ fp = EmptyFootprint
  /\ nvisit = 0
  /\ ret = "none"
  /\ store = [n \in PassNodes |-> NoObject]
  /\ heap = <<>>
  /\ TransformIdle

\* The builder hands the next instruction of the node to for_each_memory.
Visit(I) ==
  /\ fpc = "build"
  /\ calls = <<>>
  /\ nvisit < MaxInsts
  /\ inst' = I
  /\ nvisit' = nvisit + 1
  /\ calls' = for_each_memory(I)
  /\ UNCHANGED <<SolverVars, tvars, ndebug, fpc, fp, ret, store, heap>>

\* for_each_memory invokes Func.
DeliverFunc ==
  /\ fpc = "build"
  /\ calls # <<>>
  /\ Head(calls).fn = "Func"
  /\ fp' = OnFunc(fp, Head(calls))
  /\ calls' = Tail(calls)
  /\ UNCHANGED <<SolverVars, tvars, ndebug, fpc, inst, nvisit, ret, store, heap>>

\* for_each_memory invokes UnknownFunc.
DeliverUnknownFunc ==
  /\ fpc = "build"
  /\ calls # <<>>
  /\ Head(calls).fn = "UnknownFunc"
  /\ fp' = OnUnknownFunc(fp, nvisit)
  /\ calls' = Tail(calls)
  /\ UNCHANGED <<SolverVars, tvars, ndebug, fpc, inst, nvisit, ret, store, heap>>

BuildNext ==
  \/ \E I \in StreamInsts : Visit(I)
  \/ DeliverFunc
  \/ DeliverUnknownFunc

BuildSpec == BuildInit /\ [][BuildNext]_vars

(***************************************************************************)
(* A client of one DefUseSet                                               *)
(***************************************************************************)
DefUseInit ==
  /\ SolverIdle
  /\ ndebug = FALSE
  /\ fpc = "client"
  /\ inst = NoInst
  /\ calls = <<>>
  /\ fp = EmptyFootprint
  /\ nvisit = 0
  /\ ret = "none"
  /\ store = [n \in PassNodes |-> NoObject]
  /\ heap = <<>>
  /\ TransformIdle

Returned(b) == IF b THEN "true" ELSE "false"

CallAddDef(Loc) ==
  /\ fpc = "client"
  /\ fp' = addDef(fp, Loc)
  /\ ret' = Returned(addDefRet(fp, Loc))
  /\ UNCHANGED <<SolverVars, tvars, ndebug, fpc, inst, calls, nvisit, store, heap>>

CallAddMayDef(Loc) ==
  /\ fpc = "client"
  /\ fp' = addMayDef(fp, Loc)
  /\ ret' = Returned(addMayDefRet(fp, Loc))
  /\ UNCHANGED <<SolverVars, tvars, ndebug, fpc, inst, calls, nvisit, store, heap>>

CallAddUse(Loc) ==
  /\ fpc = "client"
  /\ fp' = addUse(fp, Loc)
  /\ ret' = Returned(addUseRet(fp, Loc))
  /\ UNCHANGED <<SolverVars, tvars, ndebug, fpc, inst, calls, nvisit, store, heap>>

CallAddAddressAccess(Ptr) ==
  /\ fpc = "client"
  /\ fp' = addAddressAccess(fp, Ptr)
  /\ ret' = Returned(addAddressAccessRet(fp, Ptr))
  /\ UNCHANGED <<SolverVars, tvars, ndebug, fpc, inst, calls, nvisit, store, heap>>

CallAddUnknownInst(I) ==
  /\ fpc = "client"
  /\ fp' = addUnknownInst(fp, I)
  /\ ret' = Returned(addUnknownInstRet(fp, I))
  /\ UNCHANGED <<SolverVars, tvars, ndebug, fpc, inst, calls, nvisit, store, heap>>

DefUseNext ==
  \/ \E Loc \in Locs : CallAddDef(Loc)
  \/ \E Loc \in Locs : CallAddMayDef(Loc)
  \/ \E Loc \in Locs : CallAddUse(Loc)
  \/ \E Ptr \in PtrVals : CallAddAddressAccess(Ptr)
  \/ \E I \in InstIds : CallAddUnknownInst(I)

DefUseSpec == DefUseInit /\ [][DefUseNext]_vars

(***************************************************************************)
(* exploitParallelism: the pragma with its reduction clauses               *)
(***************************************************************************)
\* Every variable has at most one reduction kind (RK_NumberOf: none).
ClauseInit ==
  /\ SolverIdle
  /\ FootprintIdle
  /\ tpc = "clauses"
  /\ \E kindOf \in [LoopVars -> RK_First..RK_NumberOf] :
       VarInfoList = [i \in RK_First..(RK_NumberOf - 1) |->
                        SortedVarList({v \in LoopVars : kindOf[v] = i})]
  /\ ParallelFor = PragmaPrefix
  /\ rk = RK_First
  /\ AvailIdle
  /\ VisitorIdle
  /\ RunIdle
  /\ TraverseIdle

\* The body of the loop of ClausePrinter::operator()(ReductionVarListT).
ReductionClause ==
  /\ tpc = "clauses"
  /\ rk < RK_NumberOf
  /\ ParallelFor' = PrintReduction(ParallelFor, VarInfoList, rk)
  /\ rk' = rk + 1
  /\ UNCHANGED <<SolverVars, fvars, tpc, VarInfoList, avars, dvars, rvars, svars>>

\* The end of the line is appended and the pragma is inserted before the loop.
InsertPragma ==
  /\ tpc = "clauses"
  /\ rk = RK_NumberOf
  /\ ParallelFor' = ParallelFor \o <<"\n">>
  /\ tpc' = "inserted"
  /\ UNCHANGED <<SolverVars, fvars, VarInfoList, rk, avars, dvars, rvars, svars>>

ClauseNext == ReductionClause \/ InsertPragma

ClauseSpec == ClauseInit /\ [][ClauseNext]_vars

(***************************************************************************)
(* findAvailableDecls for one definition and one usage                     *)
(***************************************************************************)
\* The defining instruction is a call or another instruction; every further
\* value is an operand of the value before it or of no value.  The usage may
\* already hold declarations of a definition with the same location.
AvailInit ==
  /\ SolverIdle
  /\ FootprintIdle
  /\ ClauseIdle
  /\ tpc = "avail"
  /\ \E vals \in [ValueIds -> IRValues],
        users \in [ValueIds -> 0..(MaxValues - 1)] :
       /\ vals[DI].kind # "function"
       /\ users[DI] = 0
       /\ \A v \in ValueIds \ {DI} : users[v] \in {0, v - 1}
       /\ values = [v \in ValueIds |->
                      [kind |-> vals[v].kind, mayRead |-> vals[v].mayRead,
                       mayWrite |-> vals[v].mayWrite,
                       mayThrow |-> vals[v].mayThrow,
                       matched |-> vals[v].matched, user |-> users[v]]]
  /\ Available \in {{}, {0}}
  /\ VisitorIdle
  /\ RunIdle
  /\ TraverseIdle

FindAvailableDecls ==
  /\ tpc = "avail"
  /\ \E order \in Orders(OperandClosure(values, {DI}, {DI})) :
       Available' = ScanOps(values, order, 1, Available)
  /\ tpc' = "availDone"
  /\ UNCHANGED <<SolverVars, fvars, cvars, values, dvars, rvars, svars>>

AvailNext == FindAvailableDecls

AvailSpec == AvailInit /\ [][AvailNext]_vars

(***************************************************************************)
(* checkAssignmentRHS for the right-hand side of one definition            *)
(***************************************************************************)
\* Largest number of usages of the definition.
MaxUsages == 2
\* Largest number of declaration references in the right-hand side.
MaxRefs == 2

UsageLocs == <<"u1", "u2", "u3">>
\* The declarations referenced in right-hand sides and the candidates: the
\* candidate x of the assignment x = ..., and i, which also occurs in it.
RHSDeclSet == {NamedDecl("i", ParamScope), NamedDecl("j", ParamScope)}
CandidateLists ==
  {<<>>, <<NamedDecl("x", ParamScope)>>, <<NamedDecl("i", ParamScope)>>,
   <<NamedDecl("x", ParamScope), NamedDecl("i", ParamScope)>>}

\* The usages of the definition "d" with their candidates and available
\* declarations (rememberPossibleAssignment looks for available declarations
\* only if the usage has a candidate), the references collected before the
\* right-hand side (none, or one of an enclosing collection) and those of
\* the right-hand side.
CheckInit ==
  /\ SolverIdle
  /\ FootprintIdle
  /\ ClauseIdle
  /\ AvailIdle
  /\ tpc = "check"
  /\ RunIdle
  /\ TraverseIdle
  /\ \E n \in 1..MaxUsages, k \in 0..MaxRefs, Idx \in 0..1 :
       \E cand \in [1..n -> CandidateLists],
          avail \in [1..n -> SUBSET RHSDeclSet],
          refs \in [1..k -> RHSDeclSet] :
         /\ \A i \in 1..n : cand[i] = <<>> => avail[i] = {}
         /\ visitor =
              [NewVisitor EXCEPT
                 !.mDefLocs =
                   Put(EmptyMap, "d",
                       {[Usage |-> UsageLocs[i], Candidate |-> cand[i],
                         Available |-> avail[i]] : i \in 1..n}),
                 !.mCollectDecls = TRUE,
                 !.mDeclRefs =
                   (IF Idx = 1 THEN <<NamedDecl("x", ParamScope)>> ELSE <<>>)
                     \o refs]
         /\ DefRHS = [Definition |-> "d", DeclRefIdx |-> Idx]

\* checkAssignmentRHS(RHS, DefToUse, DeclRefIdx); the usages are iterated in
\* the order of the map.
CheckAssignmentRHS ==
  /\ tpc = "check"
  /\ \E order \in Orders(visitor.mDefLocs[DefRHS.Definition]) :
       visitor' =
         [visitor EXCEPT
            !.mUseLocs =
              checkAssignmentRHS("(rhs)", visitor.mDeclRefs, order, 1,
                                 DefRHS.DeclRefIdx, TRUE, {}, @)]
  /\ tpc' = "checked"
  /\ UNCHANGED <<SolverVars, fvars, cvars, avars, DefRHS, rvars, svars>>

CheckNext == CheckAssignmentRHS

CheckSpec == CheckInit /\ [][CheckNext]_vars

(***************************************************************************)
(* runOnFunction: the replacements found at the use locations              *)
(***************************************************************************)
\* The function: every value with the locations of the instructions that
\* use it while x holds it.  At one instruction x holds one value; the
\* instructions have each its own location or share one (instructions of
\* one macro expansion, or debug information without columns).
RunInit ==
  /\ SolverIdle
  /\ ndebug \in BOOLEAN
  /\ fpc = "idle"
  /\ inst = NoInst
  /\ calls = <<>>
  /\ fp = EmptyFootprint
  /\ nvisit = 0
  /\ ret = "none"
  /\ store = [n \in PassNodes |-> NoObject]
  /\ heap = <<>>
  /\ ClauseIdle
  /\ AvailIdle
  /\ VisitorIdle
  /\ TraverseIdle
  /\ tpc = "run"
  /\ \E defs \in [1..MaxDefs -> DefValues],
        held \in [1..MaxUsers -> 0..MaxDefs],
        shared \in BOOLEAN :
       dbgValues =
         [v \in 1..MaxDefs |->
            [Def |-> defs[v],
             Uses |-> [i \in 1..Cardinality({u \in 1..MaxUsers : held[u] = v})
                        |-> IF shared THEN UsageLocs[1]
                            ELSE UsageLocs[
                                   CHOOSE u \in 1..MaxUsers :
                                     /\ held[u] = v
                                     /\ Cardinality({w \in 1..u : held[w] = v})
                                          = i]]]]
  /\ WorkSet = {}

\* One iteration of the loop over the instructions of the function, for a
\* llvm.dbg.value whose value has not been looked at.
SearchCandidates(v) ==
  /\ tpc = "run"
  /\ v \notin WorkSet
  /\ WorkSet' = WorkSet \cup {v}
  /\ \E Found \in {AddCandidates(visitor.mUseLocs, dbgValues[v].Def,
                                  dbgValues[v].Uses, 1, ~ndebug)} :
       /\ tpc' = IF Found.failed THEN "aborted" ELSE tpc
       /\ visitor' = [visitor EXCEPT !.mUseLocs = Found.UseLocs]
  /\ UNCHANGED <<SolverVars, fvars, cvars, avars, DefRHS, dbgValues, svars>>

RunNext == \E v \in 1..MaxDefs : SearchCandidates(v)

RunSpec == RunInit /\ [][RunNext]_vars

(***************************************************************************)
(* DefUseVisitor: the traversal of a function                              *)
(***************************************************************************)
\* Number of statements in the body of the function and depth of their
\* nesting.
MaxStmts == 4
MaxDepth == 2

FuncDecl == NamedDecl("f", FileScope)
Params == {NamedDecl("x", ParamScope), NamedDecl("y", ParamScope)}

\* The innermost frame, and what the visitor had when its call began.
TopFrame == stack[Len(stack)]
Before(V) ==
  [depth |-> Len(V.mDeclsInScope), visible |-> V.mVisibleDecls,
   active |-> V.mActivePropagate]

\* The declaration a reference to the name n denotes in the scopes st:
\* the innermost one of this name, or the one at file scope.
FoundDecl(st, n) ==
  LET ks == {k \in DOMAIN st : \E D \in st[k].decls : D.name = n}
  IN  IF ks = {} THEN NamedDecl(n, FileScope)
      ELSE LET k == CHOOSE k \in ks : \A j \in ks : j <= k
           IN  CHOOSE D \in st[k].decls : D.name = n

\* The names declared in the innermost scope; the parameters belong to the
\* scope of the body.
DeclaredHere ==
  {D.name : D \in TopFrame.decls}
    \cup (IF Len(stack) = 2 THEN {D.name : D \in Params} ELSE {})

\* A new statement may follow in the innermost statement.
MayTraverse ==
  /\ tpc = "body"
  /\ Res
  /\ nstmt < MaxStmts

\* The replacement runOnFunction has found for x at the location u1, a
\* constant or the parameter y, and a definition location d whose value no
\* variable holds at its use.
VisitorInit ==
  /\ SolverIdle
  /\ FootprintIdle
  /\ ClauseIdle
  /\ AvailIdle
  /\ RunIdle
  /\ TraverseIdle
  /\ tpc = "start"
  /\ DefRHS = [Definition |-> "null", DeclRefIdx |-> 0]
  /\ \E Def \in {D \in DefValues : D.DefStr \in {"1", "y"}} :
       visitor =
         [NewVisitor EXCEPT
            !.mUseLocs =
              AddCandidate(EmptyMap, Def, UsageLocs[1], FALSE).UseLocs,
            !.mDefLocs =
              Put(EmptyMap, "d",
                  {[Usage |-> UsageLocs[1], Candidate |-> <<>>,
                    Available |-> {}]})]

\* TraverseFunctionDecl up to the traversal of the body.
TraverseFunctionDecl ==
  /\ tpc = "start"
  /\ tpc' = "decl"
  /\ visitor' =
       VisitNamedDecl(
         VisitNamedDecl(VisitNamedDecl(enterInScope(visitor), FuncDecl),
                        NamedDecl("x", ParamScope)),
         NamedDecl("y", ParamScope))
  /\ stack' = <<[class |-> "FunctionDecl", S |-> Stmt(0, "FunctionDecl", TRUE),
                 branch |-> "plain", StashPropagateState |-> FALSE,
                 StashPropagateScope |-> visitor.mDeclPropagateScope,
                 decls |-> Params, before |-> Before(visitor)]>>
  /\ UNCHANGED <<SolverVars, fvars, cvars, avars, DefRHS, rvars, Res, nstmt>>

\* TraverseStmt for a pragma with a propagate clause.
TraversePragma ==
  /\ MayTraverse
  /\ TopFrame.class = "CompoundStmt"
  /\ nstmt' = nstmt + 1
  /\ visitor' =
       [visitor EXCEPT
          !.mClauses = @ \cup {"propagate"},
          !.mRewriter =
            @ \cup {[Ref |-> DeclRefExpr(Stmt(nstmt + 2, "Pragma", FALSE), 0,
                                         <<>>),
                     Text |-> ""]}]
  /\ UNCHANGED <<SolverVars, fvars, tpc, cvars, avars, DefRHS, rvars, stack,
                 Res>>

\* TraverseStmt and TraverseCompoundStmt up to the traversal of the
\* statements of the block; the body of the function is such a block.
EnterCompoundStmt(macro) ==
  /\ \/ tpc = "decl"
     \/ MayTraverse /\ Len(stack) <= MaxDepth
  /\ macro => TopFrame.S.macro
  /\ tpc' = "body"
  /\ nstmt' = IF tpc = "decl" THEN nstmt ELSE nstmt + 1
  /\ LET S == Stmt(IF tpc = "decl" THEN ParamScope ELSE nstmt + 2,
                   "CompoundStmt", macro)
         V == enterInScope(BeginStmt(visitor, S, "other"))
         branch == IF V.mClauses = {} THEN "plain"
                   ELSE IF ~V.mActivePropagate /\ hasMacro(S) THEN "macro"
                   ELSE "clause"
     IN  /\ visitor' =
              [V EXCEPT
                 !.mClauses = {},
                 !.mActivePropagate = IF branch = "clause" THEN TRUE ELSE @]
         /\ stack' =
              Append(stack,
                     [class |-> "CompoundStmt", S |-> S, branch |-> branch,
                      StashPropagateState |-> V.mActivePropagate,
                      StashPropagateScope |-> visitor.mDeclPropagateScope,
                      decls |-> {}, before |-> Before(visitor)])
  /\ UNCHANGED <<SolverVars, fvars, cvars, avars, DefRHS, rvars, Res>>

\* The rest of TraverseCompoundStmt and of TraverseStmt.
ExitCompoundStmt ==
  /\ tpc = "body"
  /\ TopFrame.class = "CompoundStmt"
  /\ LET V == IF TopFrame.branch = "macro" THEN visitor
              ELSE exitFromScope(
                     [visitor EXCEPT
                        !.mActivePropagate =
                          IF TopFrame.branch = "clause"
                          THEN TopFrame.StashPropagateState ELSE @])
     IN  /\ visitor' = EndStmt(V, FALSE, TopFrame.StashPropagateScope)
         /\ tpc' = IF TopFrame.branch # "macro" /\ ~ScopeExists(visitor)
                   THEN "aborted"
                   ELSE IF Len(stack) = 2 THEN "end" ELSE "body"
  /\ Res' = IF TopFrame.branch = "clause" THEN FALSE ELSE Res
  /\ stack' = SubSeq(stack, 1, Len(stack) - 1)
  /\ UNCHANGED <<SolverVars, fvars, cvars, avars, DefRHS, rvars, nstmt>>

\* TraverseStmt and TraverseForStmt, TraverseDoStmt, TraverseWhileStmt,
\* TraverseIfStmt or TraverseSwitchStmt up to the traversal of the children.
EnterScopeStmt(macro) ==
  /\ MayTraverse
  /\ Len(stack) <= MaxDepth
  /\ macro => TopFrame.S.macro
  /\ nstmt' = nstmt + 1
  /\ LET S == Stmt(nstmt + 2, "ForStmt", macro)
     IN  /\ visitor' =
              VisitStmt(enterInScope(BeginStmt(visitor, S, "other")), S, {})
         /\ stack' =
              Append(stack,
                     [class |-> "ForStmt", S |-> S, branch |-> "plain",
                      StashPropagateState |-> visitor.mActivePropagate,
                      StashPropagateScope |-> visitor.mDeclPropagateScope,
                      decls |-> {}, before |-> Before(visitor)])
  /\ UNCHANGED <<SolverVars, fvars, tpc, cvars, avars, DefRHS, rvars, Res>>

\* The rest of that Traverse* method and of TraverseStmt.
ExitScopeStmt ==
  /\ tpc = "body"
  /\ TopFrame.class = "ForStmt"
  /\ visitor' = EndStmt(exitFromScope(visitor), FALSE,
                        TopFrame.StashPropagateScope)
  /\ tpc' = IF ScopeExists(visitor) THEN tpc ELSE "aborted"
  /\ stack' = SubSeq(stack, 1, Len(stack) - 1)
  /\ UNCHANGED <<SolverVars, fvars, cvars, avars, DefRHS, rvars, Res, nstmt>>

\* TraverseStmt for the declaration "int n = x + 1;", whose initializer is
\* at the definition location d or not, with TraverseVarDecl.
TraverseDeclStmt(n, atDef) ==
  /\ MayTraverse
  /\ n \notin DeclaredHere
  /\ nstmt' = nstmt + 1
  /\ stack' = [stack EXCEPT
                 ![Len(stack)].decls = @ \cup {NamedDecl(n, nstmt + 2)}]
  /\ LET S == Stmt(nstmt + 2, "DeclStmt", FALSE)
         VD == NamedDecl(n, nstmt + 2)
         InitExpr == Stmt(nstmt + 2, "BinaryOperator", FALSE)
         Ref == DeclRefExpr(S, 1, <<"BinaryOperator", "DeclRefExpr">>)
         V == VisitStmt(BeginStmt(visitor, S, "other"), S, {VD})
         \* RecursiveASTVisitor::TraverseVarDecl: VisitNamedDecl and the
         \* traversal of the initializer
         Pushed == BeginStmt(VisitNamedDecl(V, VD), InitExpr, "other")
         Base == EndStmt(VisitDeclRefExpr(Pushed, Ref, FoundDecl(stack', "x")),
                         FALSE, V.mDeclPropagateScope)
         \* startCollectDeclRef, TraverseStmt(InitExpr), checkAssignmentRHS,
         \* restoreCollectDeclRef
         Collect == BeginStmt([V EXCEPT !.mCollectDecls = TRUE], InitExpr,
                              "d")
         InitDone ==
           EndStmt(VisitDeclRefExpr(Collect, Ref, FoundDecl(stack', "x")),
                   "d" \in DOMAIN V.mUseLocs, V.mDeclPropagateScope)
         Checked ==
           [InitDone EXCEPT
              !.mUseLocs =
                 checkAssignmentRHS("(x + 1)", InitDone.mDeclRefs,
                                    <<CHOOSE U \in V.mDefLocs["d"] : TRUE>>,
                                    1, Len(V.mDeclRefs), TRUE, {}, @),
              !.mCollectDecls = V.mCollectDecls,
              !.mDeclRefs = IF V.mCollectDecls THEN @ ELSE <<>>]
     IN  /\ visitor' = EndStmt(IF atDef THEN Checked ELSE Base, FALSE,
                               visitor.mDeclPropagateScope)
         /\ tpc' = IF ~atDef /\ ~ScopeExists(V) THEN "aborted" ELSE tpc
  /\ UNCHANGED <<SolverVars, fvars, cvars, avars, DefRHS, rvars, Res>>

\* TraverseStmt for the expression statement "g(n);" at the location Loc.
TraverseUse(Loc, n) ==
  /\ MayTraverse
  /\ nstmt' = nstmt + 1
  /\ LET S == Stmt(nstmt + 2, "CallExpr", FALSE)
         V == VisitStmt(BeginStmt(visitor, S, Loc), S, {})
     IN  visitor' =
           EndStmt(VisitDeclRefExpr(V, DeclRefExpr(S, 2, <<"DeclRefExpr">>),
                                    FoundDecl(stack, n)),
                   Loc \in DOMAIN visitor.mUseLocs,
                   visitor.mDeclPropagateScope)
  /\ UNCHANGED <<SolverVars, fvars, tpc, cvars, avars, DefRHS, rvars, stack,
                 Res>>

\* The first children of the statements "x = x + 1;" and "++x;", with other
\* targets in place of the first x: x, *x, x[0], *(x + 1), *x().
Targets ==
  {<<"DeclRefExpr">>, <<"UnaryOperator", "DeclRefExpr">>,
   <<"ArraySubscriptExpr", "DeclRefExpr">>,
   <<"UnaryOperator", "BinaryOperator", "DeclRefExpr">>,
   <<"UnaryOperator", "CallExpr", "DeclRefExpr">>}

\* TraverseStmt for an assignment of "x + 1" at the location Loc, with
\* TraverseBinAssign; the right-hand side is at the definition location d
\* or not.
TraverseAssignment(chain, Loc, atDef) ==
  /\ MayTraverse
  /\ nstmt' = nstmt + 1
  /\ LET S == Stmt(nstmt + 2, "BinAssign", FALSE)
         RHSExpr == Stmt(nstmt + 2, "BinaryOperator", FALSE)
         Begun == BeginStmt(excludeIfAssignment(visitor, S, chain), S, Loc)
         LHS == VisitDeclRefExpr(IF atDef THEN Begun
                                 ELSE VisitStmt(Begun, S, {}),
                                 DeclRefExpr(S, 1, chain),
                                 FoundDecl(stack, "x"))
         \* startCollectDeclRef, TraverseStmt(RHS), checkAssignmentRHS,
         \* restoreCollectDeclRef
         Collect == BeginStmt([LHS EXCEPT !.mCollectDecls = atDef \/ @],
                              RHSExpr, IF atDef THEN "d" ELSE "other")
         RHSDone ==
           EndStmt(VisitDeclRefExpr(
                     Collect,
                     DeclRefExpr(S, 2, <<"BinaryOperator", "DeclRefExpr">>),
                     FoundDecl(stack, "x")),
                   atDef /\ "d" \in DOMAIN LHS.mUseLocs,
                   LHS.mDeclPropagateScope)
         Checked ==
           [RHSDone EXCEPT
              !.mUseLocs =
                 checkAssignmentRHS("(x + 1)", RHSDone.mDeclRefs,
                                    <<CHOOSE U \in LHS.mDefLocs["d"] : TRUE>>,
                                    1, Len(LHS.mDeclRefs), TRUE, {}, @),
              !.mCollectDecls = LHS.mCollectDecls,
              !.mDeclRefs = IF LHS.mCollectDecls THEN @ ELSE <<>>]
     IN  visitor' =
           EndStmt(IF atDef THEN Checked ELSE RHSDone,
                   Loc \in DOMAIN visitor.mUseLocs,
                   visitor.mDeclPropagateScope)
  /\ UNCHANGED <<SolverVars, fvars, tpc, cvars, avars, DefRHS, rvars, stack,
                 Res>>

\* TraverseStmt for an increment or decrement at the location Loc.
TraverseIncDec(chain, Loc) ==
  /\ MayTraverse
  /\ nstmt' = nstmt + 1
  /\ LET S == Stmt(nstmt + 2, "UnaryIncDec", FALSE)
         Begun == BeginStmt(excludeIfAssignment(visitor, S, chain), S, Loc)
     IN  visitor' =
           EndStmt(VisitDeclRefExpr(VisitStmt(Begun, S, {}),
                                    DeclRefExpr(S, 1, chain),
                                    FoundDecl(stack, "x")),
                   Loc \in DOMAIN visitor.mUseLocs,
                   visitor.mDeclPropagateScope)
  /\ UNCHANGED <<SolverVars, fvars, tpc, cvars, avars, DefRHS, rvars, stack,
                 Res>>

\* The rest of TraverseFunctionDecl.
ExitFunctionDecl ==
  /\ tpc = "end"
  /\ tpc' = IF ScopeExists(visitor) THEN "done" ELSE "aborted"
  /\ visitor' = exitFromScope(visitor)
  /\ stack' = <<>>
  /\ UNCHANGED <<SolverVars, fvars, cvars, avars, DefRHS, rvars, Res, nstmt>>

VisitorNext ==
  \/ TraverseFunctionDecl
  \/ TraversePragma
  \/ \E macro \in BOOLEAN : EnterCompoundStmt(macro)
  \/ ExitCompoundStmt
  \/ \E macro \in BOOLEAN : EnterScopeStmt(macro)
  \/ ExitScopeStmt
  \/ \E n \in {"x", "y"}, atDef \in BOOLEAN : TraverseDeclStmt(n, atDef)
  \/ \E Loc \in {UsageLocs[1], "other"} : TraverseUse(Loc, "x")
  \/ ExitFunctionDecl

VisitorSpec == VisitorInit /\ [][VisitorNext]_vars

\* The traversal of a function of blocks, assignments and increments.
AssignNext ==
  \/ TraverseFunctionDecl
  \/ TraversePragma
  \/ \E macro \in BOOLEAN : EnterCompoundStmt(macro)
  \/ ExitCompoundStmt
  \/ \E chain \in Targets, Loc \in {UsageLocs[1], "other"},
        atDef \in BOOLEAN : TraverseAssignment(chain, Loc, atDef)
  \/ \E chain \in Targets, Loc \in {UsageLocs[1], "other"} :
       TraverseIncDec(chain, Loc)
  \/ ExitFunctionDecl

AssignSpec == VisitorInit /\ [][AssignNext]_vars

(***************************************************************************)
(* DefinedMemoryPass: the node -> DefUseSet store and its clients          *)
(***************************************************************************)
\* Largest number of DefUseSet objects allocated over all analysis runs.
MaxObjects == 3

\* The null pointers passed by a faulty caller.
NullNode == "null"
NullInst == [NoInst EXCEPT !.op = "null"]

\* Instructions a client passes to the Instruction overloads.
ClientInsts ==
  {I \in Insts :
     /\ ~I.nullDefined
     /\ I.op \in {"load", "store"}
     /\ I.ptr = "valid"
     /\ I.loc = LocB
     /\ ~(I.mayRead /\ I.mayWrite)}
    \cup {NoInst, NullInst}

\* releaseMemory: every DefUseSet of the store is deleted, the store is
\* cleared.  heap[o] counts the deletions of the object o.
releaseMemory_noClear(st, hp) ==
  [store |-> st,
   heap |-> [o \in DOMAIN hp |->
               hp[o] + Cardinality({n \in DOMAIN st : st[n] = o})]]
releaseMemory(st, hp) ==
  [store |-> [n \in DOMAIN st |-> NoObject],
   heap |-> [o \in DOMAIN hp |->
               hp[o] + Cardinality({n \in DOMAIN st : st[n] = o})]]

\* The preconditions the methods assert.
getDefUseForPre(N) == N # NullNode /\ store[N] # NoObject
getValuePre(N) == N # NullNode /\ N \in attr
addDefPre(I) == I # NullInst /\ I.op = "store"
addMayDefPre(I) == I # NullInst /\ mayWriteToMemory(I)
addUsePre(I) == I # NullInst /\ mayReadFromMemory(I)
addExplicitAccessPre(I) == I # NullInst /\ mayReadOrWriteMemory(I)

PassInit ==
  /\ SolverIdle
  /\ ndebug \in BOOLEAN
  /\ fpc = "pass"
  /\ inst = NoInst
  /\ calls = <<>>
  /\ fp = EmptyFootprint
  /\ nvisit = 0
  /\ ret = "none"
  /\ store = [n \in PassNodes |-> NoObject]
  /\ heap = <<>>
  /\ TransformIdle

\* A failed assertion stops the program.
AssertionFails ==
  /\ ~ndebug
  /\ ret' = "assert"
  /\ fpc' = "aborted"

\* With the assertion compiled out the call goes on into undefined
\* behaviour: the program crashes or the call returns some value.
Undefined ==
  /\ ndebug
  /\ \/ ret' = "crashed" /\ fpc' = "aborted"
     \/ ret' = "returned" /\ fpc' = "pass"

\* With the assertion compiled out the call goes on and returns.
Unchecked ==
  /\ ndebug
  /\ ret' = "returned"
  /\ fpc' = "pass"

Returns ==
  /\ ret' = "ok"
  /\ fpc' = "pass"

\* runOnFunction creates the DefUseSet of a node that has none.
BuildFootprint(N) ==
  /\ fpc = "pass"
  /\ store[N] = NoObject
  /\ Len(heap) < MaxObjects
  /\ heap' = Append(heap, 0)
  /\ store' = [store EXCEPT ![N] = Len(heap) + 1]
  /\ UNCHANGED <<SolverVars, tvars, ndebug, fpc, inst, calls, fp, nvisit, ret>>

\* The solver attaches a PrivateDFAttr value to a node.
AddAttr(N) ==
  /\ fpc = "pass"
  /\ N \notin attr
  /\ attr' = attr \cup {N}
  /\ UNCHANGED <<pc, round, shape, du, in, out, saved, fvars, tvars>>

ReleaseMemory ==
  /\ fpc = "pass"
  /\ store' = releaseMemory(store, heap).store
  /\ heap' = releaseMemory(store, heap).heap
  /\ UNCHANGED <<SolverVars, tvars, ndebug, fpc, inst, calls, fp, nvisit, ret>>

GetDefUseFor(N) ==
  /\ fpc = "pass"
  /\ IF getDefUseForPre(N) THEN Returns
     ELSE AssertionFails \/ Undefined
  /\ UNCHANGED <<SolverVars, tvars, ndebug, inst, calls, fp, nvisit, store, heap>>

GetValue(N) ==
  /\ fpc = "pass"
  /\ IF getValuePre(N) THEN Returns
     ELSE AssertionFails \/ Undefined
  /\ UNCHANGED <<SolverVars, tvars, ndebug, inst, calls, fp, nvisit, store, heap>>

SetValue(V, N) ==
  /\ fpc = "pass"
  /\ IF getValuePre(N) THEN Returns /\ out' = [out EXCEPT ![N] = V]
     ELSE (AssertionFails \/ Undefined) /\ out' = out
  /\ UNCHANGED <<pc, round, shape, du, attr, in, saved>>
  /\ UNCHANGED <<ndebug, inst, calls, fp, nvisit, store, heap, tvars>>

\* MemoryLocation::get(I) is defined for the memory opcodes only.
HasLocation(I) == I # NullInst /\ I.op \in MemOpcodes

CallAddDefInst(I) ==
  /\ fpc = "pass"
  /\ IF addDefPre(I) THEN Returns /\ fp' = addDef(fp, I.loc)
     ELSE \/ AssertionFails /\ fp' = fp
          \/ ~HasLocation(I) /\ Undefined /\ fp' = fp
          \/ HasLocation(I) /\ Unchecked /\ fp' = addDef(fp, I.loc)
  /\ UNCHANGED <<SolverVars, tvars, ndebug, inst, calls, nvisit, store, heap>>

CallAddMayDefInst(I) ==
  /\ fpc = "pass"
  /\ IF addMayDefPre(I) THEN Returns /\ fp' = addMayDef(fp, I.loc)
     ELSE \/ AssertionFails /\ fp' = fp
          \/ ~HasLocation(I) /\ Undefined /\ fp' = fp
          \/ HasLocation(I) /\ Unchecked /\ fp' = addMayDef(fp, I.loc)
  /\ UNCHANGED <<SolverVars, tvars, ndebug, inst, calls, nvisit, store, heap>>

CallAddUseInst(I) ==
  /\ fpc = "pass"
  /\ IF addUsePre(I) THEN Returns /\ fp' = addUse(fp, I.loc)
     ELSE \/ AssertionFails /\ fp' = fp
          \/ ~HasLocation(I) /\ Undefined /\ fp' = fp
          \/ HasLocation(I) /\ Unchecked /\ fp' = addUse(fp, I.loc)
  /\ UNCHANGED <<SolverVars, tvars, ndebug, inst, calls, nvisit, store, heap>>

CallAddExplicitAccessInst(I) ==
  /\ fpc = "pass"
  /\ IF addExplicitAccessPre(I)
     THEN Returns /\ fp' = addExplicitAccess(fp, I.loc)
     ELSE \/ AssertionFails /\ fp' = fp
          \/ I = NullInst /\ Undefined /\ fp' = fp
          \/ I # NullInst /\ Unchecked /\ fp' = fp
  /\ UNCHANGED <<SolverVars, tvars, ndebug, inst, calls, nvisit, store, heap>>

PassNext ==
  \/ \E N \in PassNodes : BuildFootprint(N)
  \/ \E N \in PassNodes : AddAttr(N)
  \/ ReleaseMemory
  \/ \E N \in PassNodes \cup {NullNode} : GetDefUseFor(N)
  \/ \E N \in PassNodes \cup {NullNode} : GetValue(N)
  \/ \E N \in PassNodes \cup {NullNode} : SetValue(topElement, N)
  \/ \E I \in ClientInsts : CallAddDefInst(I)
  \/ \E I \in ClientInsts : CallAddMayDefInst(I)
  \/ \E I \in ClientInsts : CallAddUseInst(I)
  \/ \E I \in ClientInsts : CallAddExplicitAccessInst(I)

PassSpec == PassInit /\ [][PassNext]_vars

(***************************************************************************)
(* Solution of the fully expanded graph, by the same solver.               *)
(***************************************************************************)
RECURSIVE Iterate(_, _, _)
Iterate(order, E, st) ==
  The({IF s2.changed THEN Iterate(order, E, s2) ELSE s2 :
       s2 \in {SweepNodes(order, E, [st EXCEPT !.changed = FALSE])}})

FlatSolution ==
  Iterate(FlatOrder, FlatEdges(shape),
          [in |-> [n \in FlatNodes |-> NoValue],
           out |-> InitValues([n \in FlatNodes |-> NoValue], FlatNodes, "oE"),
           changed |-> FALSE])

(***************************************************************************)
(* Properties                                                              *)
(***************************************************************************)
\* The inner region has reached its fixed point.
InnerSolved == pc \in {"collapse", "init_o", "sweep_o", "done"}
\* The whole region tree has reached its fixed point.
OuterSolved == pc = "done"

\* The solved non-entry nodes with the edges of their graph.
SolvedNodes ==
  (IF InnerSolved THEN {<<n, shape>> : n \in {"a", "b", "iX"}} ELSE {})
    \cup (IF OuterSolved
          THEN {<<n, OuterEdges>> : n \in {"n1", "R", "n2", "oX"}} ELSE {})

\* C1: at the fixed point the IN value of every node is the meet of the OUT
\* values of its predecessors: MustReach is the intersection of their
\* MustReach and MayReach the union of their MayReach.
C1_MeetIsIntersectionAndUnion ==
  \A ne \in SolvedNodes :
    LET n == ne[1]
        P == Preds(ne[2], n)
    IN  /\ in[n].MustReach = {x \in Locs : \A p \in P : x \in out[p].MustReach}
        /\ in[n].MayReach = UnionOf({out[p].MayReach : p \in P})

\* A confluence node with P1.MustReach = {x}, P2.MustReach = {} and x in
\* P1.MayReach: x is not must-reaching and is may-reaching at the node.
C1_Witness ==
  /\ InnerSolved
  /\ \E n \in InnerNodes : \E p1, p2 \in Preds(shape, n) : \E x \in Locs :
       /\ p1 # p2
       /\ out[p1].MustReach = {x}
       /\ out[p2].MustReach = {}
       /\ x \notin in[n].MustReach
       /\ x \in in[n].MayReach

DefinitionInfo == [MustReach : SUBSET Locs, MayReach : SUBSET Locs]

\* C2: topElement is (every location, nothing) and is the identity of the
\* meet: meet(top, V) = V for every DefinitionInfo V, so a node with a single
\* predecessor receives exactly the OUT value of that predecessor.
C2_TopIsMeetIdentity ==
  /\ topElement.MustReach = Locs
  /\ topElement.MayReach = {}
  /\ pc = "build" =>
       \A V \in DefinitionInfo :
         /\ meetOperator(topElement, V) = V
         /\ meetOperator(V, topElement) = V
  /\ \A ne \in SolvedNodes :
       \A p \in Preds(ne[2], ne[1]) :
         Preds(ne[2], ne[1]) = {p} => in[ne[1]] = out[p]

\* A solved node with one predecessor whose OUT value is neither top nor empty.
C2_Witness ==
  /\ InnerSolved
  /\ \E n \in InnerNodes : \E p \in InnerNodes :
       /\ Preds(shape, n) = {p}
       /\ out[p].MustReach \notin {{}, Locs}
       /\ out[p].MayReach # {}
       /\ in[n] = out[p]

\* C3: the entry node of every region carries MustReach = {} and
\* MayReach = {}, whatever the enclosing region has defined before it.
C3_BoundaryIsEmpty ==
  /\ "iE" \in attr => out["iE"] = [MustReach |-> {}, MayReach |-> {}]
  /\ "oE" \in attr => out["oE"] = [MustReach |-> {}, MayReach |-> {}]
  /\ InnerSolved =>
       \A n \in InnerBody :
         Preds(shape, n) = {"iE"} => in[n].MustReach = {} /\ in[n].MayReach = {}

\* The enclosing region must-defines a location before the inner region, and
\* the inner region still starts from nothing.
C3_Witness ==
  /\ OuterSolved
  /\ in["R"].MustReach # {}
  /\ out["iE"].MustReach = {}
  /\ in["a"].MustReach = {}

\* C4: OUT.MayReach = IN.MayReach + Defs + MayDefs; OUT.MustReach holds every
\* member of Defs and every member of IN.MustReach that no must-def overlaps,
\* and nothing else: may-defs and uses are never added to it.
C4_TransferAddsDefs ==
  \A ne \in SolvedNodes :
    LET n == ne[1]
        D == du[n]
    IN  /\ out[n].MayReach = in[n].MayReach \cup D.Defs \cup D.MayDefs
        /\ D.Defs \subseteq out[n].MustReach
        /\ out[n].MustReach \subseteq in[n].MustReach \cup D.Defs
        /\ \A x \in in[n].MustReach :
             (\A d \in D.Defs : ~Overlap(d, x)) => x \in out[n].MustReach

\* A solved node with a must-def and a may-def that is no must-def.
C4_Witness ==
  /\ InnerSolved
  /\ \E n \in InnerBody :
       /\ du[n].Defs # {}
       /\ du[n].MayDefs \ du[n].Defs # {}
       /\ (du[n].MayDefs \ du[n].Defs) \cap out[n].MustReach = {}
       /\ du[n].Defs \subseteq out[n].MustReach

\* C5: a must-def of A clears the must-reaching status of every other
\* location overlapping A and of no location disjoint from A.
C5_OverlapAwareKill ==
  \A ne \in SolvedNodes :
    LET n == ne[1]
        D == du[n]
    IN  \A x \in in[n].MustReach \ D.Defs :
          x \in out[n].MustReach <=> (\A d \in D.Defs : ~Overlap(d, x))

\* A = (0,4) is must-defined where B = (0,2) and C = (8,4) are must-reaching:
\* B is cleared, C remains.
C5_Witness ==
  /\ InnerSolved
  /\ \E n \in InnerBody :
       /\ LocA \in du[n].Defs
       /\ {LocB, LocC} \subseteq in[n].MustReach
       /\ LocB \notin out[n].MustReach
       /\ LocC \in out[n].MustReach

\* C6: every run of the solver over the region tree reaches the state in
\* which no OUT value changes any more and the solver has stopped.
C6_SolverTerminates == <>(pc = "done")

\* The solver has stopped on an inner region with a back edge whose body
\* defines locations.
C6_Witness ==
  /\ pc = "done"
  /\ (<<"b", "a">> \in shape \/ <<"b", "b">> \in shape)
  /\ du["a"].Defs # {}
  /\ du["b"].MayDefs # {}

\* C7: from one iteration of a region's solution to the next, the MustReach
\* of every OUT value never gains a location and its MayReach never loses one.
C7_MonotoneIteration ==
  [][(pc \in {"sweep_i", "sweep_o"} /\ pc' \in {pc, "collapse", "done"}) =>
       \A n \in AllNodes :
         /\ out'[n].MustReach \subseteq out[n].MustReach
         /\ out[n].MayReach \subseteq out'[n].MayReach]_vars

\* A further iteration of a region with a back edge has changed OUT values:
\* the header's MayReach has grown by what the latch defines, and MustReach
\* has shrunk from top.
C7_Witness ==
  /\ pc = "sweep_i"
  /\ <<"b", "a">> \in shape
  /\ out["b"].MustReach \notin {{}, Locs}
  /\ out["a"].MayReach \ (du["a"].Defs \cup du["a"].MayDefs) # {}

C9_CollapseEquivalence ==
  OuterSolved => out["oX"] = FlatSolution.out["oX"]

\* Execution paths through the body of the inner region, from its entry.
InnerPaths ==
  {p \in UNION {[1..k -> InnerBody] : k \in 1..MaxPath} :
     /\ <<"iE", p[1]>> \in shape
     /\ \A i \in 1..(Len(p) - 1) : <<p[i], p[i + 1]>> \in shape}

RECURSIVE MustAlong(_, _)
\* Locations must-defined after the first i nodes of the path p.
MustAlong(p, i) ==
  IF i = 0 THEN {}
  ELSE Out([MustReach |-> MustAlong(p, i - 1), MayReach |-> {}],
           du[p[i]]).MustReach

\* The inner region has been collapsed into the node R.
Collapsed == pc \in {"init_o", "sweep_o", "done"} \/ round = 2

\* C10: the node of a collapsed region has in Defs only locations that are
\* must-defined along every path from the entry to the exit of the region,
\* and none when the region may be left without executing its body; every
\* other location written in the region is in MayDefs; Uses holds exactly the
\* uses that some path reaches without a must-definition.
C10_CollapsedFootprint ==
  Collapsed =>
    /\ \A L \in du["R"].Defs :
         /\ <<"iE", "iX">> \notin shape
         /\ \A p \in InnerPaths :
              <<p[Len(p)], "iX">> \in shape => L \in MustAlong(p, Len(p))
    /\ \A n \in InnerBody :
         (du[n].Defs \cup du[n].MayDefs) \ du["R"].Defs \subseteq du["R"].MayDefs
    /\ du["R"].Uses =
         {u \in Locs : \E p \in InnerPaths :
            u \in du[p[Len(p)]].Uses /\ u \notin MustAlong(p, Len(p) - 1)}

\* A collapsed region with a must-def, a may-def and an exposed use, and
\* with a use that is not exposed.
C10_Witness ==
  /\ Collapsed
  /\ du["R"].Defs # {}
  /\ du["R"].MayDefs # {}
  /\ du["b"].Uses # {}
  /\ du["b"].Uses \cap du["R"].Uses = {}

\* The statement of C9's failure in the other direction does hold: whatever
\* is must-reaching at the outer exit of the expanded graph is must-reaching
\* there after collapse, and MayReach agrees.
FlatWithinCollapsed ==
  OuterSolved =>
    /\ FlatSolution.out["oX"].MustReach \subseteq out["oX"].MustReach
    /\ FlatSolution.out["oX"].MayReach = out["oX"].MayReach

(***************************************************************************)
(* Properties of the footprint builder and of the DefUseSet                *)
(***************************************************************************)
\* The step delivers the pending callback c of the current instruction.
Delivers(c) == calls # <<>> /\ c = Head(calls) /\ calls' = Tail(calls)

\* The callbacks the step delivers (none or one).
Delivered == IF calls # <<>> /\ calls' = Tail(calls) THEN {Head(calls)} ELSE {}

C11_BranchScenario ==
  \A x, y \in Locs :
    (/\ Collapsed
     /\ ~Overlap(x, y)
     /\ shape = {<<"iE", "a">>, <<"iE", "b">>, <<"a", "iX">>, <<"b", "iX">>}
     /\ du["a"] = [Defs |-> {x, y}, MayDefs |-> {}, Uses |-> {}]
     /\ du["b"] = [Defs |-> {x}, MayDefs |-> {}, Uses |-> {}])
      => du["R"] = [Defs |-> {x}, MayDefs |-> {y}, Uses |-> {}]

\* C12: a read (Must or May) of L puts L into Uses if and only if L is not
\* yet must-defined by an earlier instruction of the node: after a must-write
\* of L the read leaves Uses as it is, otherwise L is in Uses afterwards; an
\* access that reads nothing leaves Uses as it is.
C12_ReadBeforeDefIsUse ==
  [][\A c \in Delivered :
       c.fn = "Func" =>
         /\ (c.read # "No" /\ c.loc \notin fp.Defs) =>
              fp'.Uses = fp.Uses \cup {c.loc}
         /\ (c.read = "No" \/ c.loc \in fp.Defs) => fp'.Uses = fp.Uses
    ]_vars

\* A location was read before its must-write and another one only after
\* its must-write: the first is a use, the second is not, and a may-read
\* without a must-def is a use.
C12_Witness ==
  /\ fpc = "build"
  /\ calls = <<>>
  /\ inst.op = "load"
  /\ inst.loc \in fp.Defs
  /\ inst.loc \notin fp.Uses
  /\ fp.Uses # {}
  /\ fp.UnknownInsts = {}

\* C13: the callback for an unknown instruction records the instruction in
\* UnknownInsts and makes every location the footprint tracks a may-def and
\* a use; the build goes on and no set of the footprint loses a member.
C13_UnknownIsConservative ==
  [][\A c \in Delivered :
       c.fn = "UnknownFunc" =>
         /\ nvisit \in fp'.UnknownInsts
         /\ Tracked(fp) \subseteq fp'.MayDefs
         /\ Tracked(fp) \subseteq fp'.Uses
         /\ fp.Defs \subseteq fp'.Defs
         /\ fp.MayDefs \subseteq fp'.MayDefs
         /\ fp.Uses \subseteq fp'.Uses
         /\ fp.Explicit \subseteq fp'.Explicit
         /\ fp.UnknownInsts \subseteq fp'.UnknownInsts
         /\ fpc' = "build"
    ]_vars

\* A second unknown instruction has been processed after a must-def that was
\* no use: the must-def is kept and is now a may-def and a use as well.
C13_Witness ==
  /\ fpc = "build"
  /\ calls = <<>>
  /\ Cardinality(fp.UnknownInsts) = 2
  /\ fp.Defs # {}
  /\ fp.Defs \subseteq fp.MayDefs
  /\ fp.Defs \subseteq fp.Uses

\* C14: addDef, addMayDef, addUse, addAddressAccess and addUnknownInst return
\* true exactly when the element was not in the set, and a call that returns
\* false leaves the DefUseSet as it was.
C14_InsertReportsChange ==
  [][/\ \A Loc \in Locs :
          /\ CallAddDef(Loc) =>
               /\ ret' = "true" <=> Loc \notin fp.Defs
               /\ ret' = "false" <=> Loc \in fp.Defs
          /\ CallAddMayDef(Loc) =>
               /\ ret' = "true" <=> Loc \notin fp.MayDefs
               /\ ret' = "false" <=> Loc \in fp.MayDefs
          /\ CallAddUse(Loc) =>
               /\ ret' = "true" <=> Loc \notin fp.Uses
               /\ ret' = "false" <=> Loc \in fp.Uses
     /\ \A Ptr \in PtrVals :
          CallAddAddressAccess(Ptr) =>
            /\ ret' = "true" <=> Ptr \notin fp.AddressAccesses
            /\ ret' = "false" <=> Ptr \in fp.AddressAccesses
     /\ \A I \in InstIds :
          CallAddUnknownInst(I) =>
            /\ ret' = "true" <=> I \notin fp.UnknownInsts
            /\ ret' = "false" <=> I \in fp.UnknownInsts
     /\ ret' = "false" => fp' = fp
     /\ ret' = "true" => fp' # fp
    ]_vars

\* An insertion has been repeated: the last call returned false on a
\* DefUseSet that holds elements in every set.
C14_Witness ==
  /\ fpc = "client"
  /\ ret = "false"
  /\ fp.Defs # {}
  /\ fp.MayDefs # {}
  /\ fp.Uses # {}
  /\ fp.AddressAccesses # {}
  /\ fp.UnknownInsts # {}

\* C15: every location that hasDef reports is reported by hasMayDef too.
C15_MustDefIsMayDef ==
  fpc = "client" => \A Loc \in Locs : hasDef(fp, Loc) => hasMayDef(fp, Loc)

(***************************************************************************)
(* Properties of for_each_memory                                           *)
(***************************************************************************)
\* The invocations of Func, of UnknownFunc.
FuncCalls == {i \in DOMAIN calls : calls[i].fn = "Func"}
UnknownCalls == {i \in DOMAIN calls : calls[i].fn = "UnknownFunc"}

\* The pointer operand of the instruction points to memory.
ThroughValidPtr ==
  inst.ptr = "valid" \/ (inst.ptr = "null" /\ inst.nullDefined)

\* C17: for every instruction that may read or write memory for_each_memory
\* invokes Func or UnknownFunc at least once.
C17_NoAccessSkipped ==
  (fpc = "enumerated" /\ (inst.mayRead \/ inst.mayWrite)) => calls # <<>>

\* C18: for a store through a valid pointer Func is invoked once with operand
\* 1, read No and write Must; for a load, va_arg, atomicrmw or cmpxchg
\* through a valid pointer Func is invoked once with operand 0, read Must if
\* the instruction may read memory else No, write Must if it may write
\* memory else No; UnknownFunc is not invoked and May is not reported.
C18_MemoryOpcodes ==
  (fpc = "enumerated" /\ inst.op \in MemOpcodes /\ ThroughValidPtr) =>
    /\ Len(calls) = 1
    /\ calls[1].fn = "Func"
    /\ calls[1].loc = inst.loc
    /\ inst.op = "store" =>
         /\ calls[1].idx = 1
         /\ calls[1].read = "No"
         /\ calls[1].write = "Must"
    /\ inst.op # "store" =>
         /\ calls[1].idx = 0
         /\ calls[1].read = (IF inst.mayRead THEN "Must" ELSE "No")
         /\ calls[1].write = (IF inst.mayWrite THEN "Must" ELSE "No")

\* An ordered store (it may also read) through a pointer to (0,2) has been
\* enumerated: one Func on operand 1 with read No, write Must.
C18_Witness ==
  /\ fpc = "enumerated"
  /\ inst.op = "store"
  /\ inst.mayRead
  /\ inst.ptr = "valid"
  /\ calls = <<FuncCall(LocB, 1, "No", "Must")>>

\* C19: UnknownFunc is invoked at most once per instruction: for a call or
\* invoke exactly when the call does not only access argument memory, for an
\* opcode other than the memory opcodes and call/invoke exactly when the
\* instruction may read or write memory, and never for a memory opcode; its
\* assurances are No or May.
C19_UnknownAtMostOnce ==
  fpc = "enumerated" =>
    /\ Cardinality(UnknownCalls) <= 1
    /\ inst.op \in CallOpcodes => (UnknownCalls # {} <=> ~inst.argMemOnly)
    /\ inst.op \in MemOpcodes => UnknownCalls = {}
    /\ inst.op \notin (CallOpcodes \cup MemOpcodes) =>
         (UnknownCalls # {} <=> (inst.mayRead \/ inst.mayWrite))
    /\ \A i \in UnknownCalls :
         /\ calls[i].read \in {"No", "May"}
         /\ calls[i].write \in {"No", "May"}

\* A call that writes through its two pointer parameters and may touch other
\* memory: two Func and then one UnknownFunc with read No, write May.
C19_Witness ==
  /\ fpc = "enumerated"
  /\ inst.op = "call"
  /\ inst.argMemOnly = FALSE
  /\ Cardinality(FuncCalls) = 2
  /\ calls[Len(calls)] = UnknownCall("No", "May")

(***************************************************************************)
(* Properties of the pass and of the asserted preconditions                *)
(***************************************************************************)
\* The step is a call that breaks the precondition of the method it calls.
ContractViolation ==
  \/ \E N \in PassNodes \cup {NullNode} :
       \/ GetDefUseFor(N) /\ ~getDefUseForPre(N)
       \/ GetValue(N) /\ ~getValuePre(N)
       \/ SetValue(topElement, N) /\ ~getValuePre(N)
  \/ \E I \in ClientInsts :
       \/ CallAddDefInst(I) /\ ~addDefPre(I)
       \/ CallAddMayDefInst(I) /\ ~addMayDefPre(I)
       \/ CallAddUseInst(I) /\ ~addUsePre(I)
       \/ CallAddExplicitAccessInst(I) /\ ~addExplicitAccessPre(I)

AssertionsStopViolations ==
  [][(~ndebug /\ ContractViolation) =>
       (ret' = "assert" /\ fpc' = "aborted")]_vars

\* The DefUseSet objects the store holds.
Held == {store[n] : n \in PassNodes} \ {NoObject}

\* C20: releaseMemory leaves the store empty and every DefUseSet the store
\* held deleted exactly once: the store never holds a deleted object, every
\* object outside the store has been deleted once, and getDefUseFor returns
\* only for a node whose DefUseSet was built after the last releaseMemory.
C20_ReleaseEmptiesStore ==
  /\ [](\A o \in DOMAIN heap :
          \/ o \in Held /\ heap[o] = 0
          \/ o \notin Held /\ heap[o] = 1)
  /\ [](Held \subseteq DOMAIN heap)
  /\ [][ReleaseMemory =>
          /\ \A n \in PassNodes : store'[n] = NoObject
          /\ \A o \in Held : heap[o] = 0 /\ heap'[o] = 1
          /\ \A o \in DOMAIN heap \ Held : heap'[o] = heap[o]]_vars
  /\ [][\A N \in PassNodes :
          /\ (store[N] = NoObject /\ store'[N] # NoObject) => BuildFootprint(N)
          /\ (GetDefUseFor(N) /\ store[N] = NoObject) =>
               (ContractViolation /\ ret' # "ok")]_vars

\* Two DefUseSets were built and released, and the getDefUseFor that
\* followed failed its assertion.
C20_Witness ==
  /\ heap = <<1, 1>>
  /\ \A n \in PassNodes : store[n] = NoObject
  /\ ret = "assert"
  /\ fpc = "aborted"
  /\ attr = PassNodes


(***************************************************************************)
(* Sub-range definitions and the accesses of calls                         *)
(***************************************************************************)
\* The byte range x lies wholly inside the byte range y.
Covers(y, x) == y.off <= x.off /\ x.off + x.size <= y.off + y.size

\* C21: hasDef(L) is true only if a recorded must-definition covers the whole
\* of L, so a definition of a part of L (size 2 at offset 0 of the size-4 L)
\* never makes hasDef(L) true; hasMayDef(L) and hasUse(L) are true exactly
\* when a recorded may-definition, resp. use, overlaps some part of L.
C21_SubRangeIsNotMustDef ==
  \A L \in Locs :
    /\ hasDef(fp, L) => \E x \in fp.Defs : Covers(x, L)
    /\ (fp.Defs # {} /\ \A x \in fp.Defs : x # L /\ Covers(L, x))
         => ~hasDef(fp, L)
    /\ hasMayDef(fp, L) <=> \E x \in fp.MayDefs : Overlap(x, L)
    /\ hasUse(fp, L) <=> \E x \in fp.Uses : Overlap(x, L)

\* Only the first two bytes of the four-byte (0,4) have been defined, may be
\* defined and used: hasDef((0,4)) is false, hasMayDef and hasUse are true.
C21_Witness ==
  /\ fpc = "client"
  /\ fp.Defs = {LocB}
  /\ fp.MayDefs = {LocB}
  /\ fp.Uses = {LocB}
  /\ ~hasDef(fp, LocA)
  /\ hasMayDef(fp, LocA)
  /\ hasUse(fp, LocA)

\* C22: every Func invocation for a call or invoke names a parameter that is
\* a valid pointer (of pointer type for an ordinary callee, one of the
\* memory parameters for an intrinsic or a library function), reports that
\* parameter's location, and carries read No exactly when the call does not
\* read memory or the callee is a memory-marker intrinsic, else May, and
\* write No exactly when the call only reads memory or the callee is a
\* memory-marker intrinsic, else May; Must is never reported.
C22_CallParameters ==
  (fpc = "enumerated" /\ inst.op \in CallOpcodes) =>
    \A i \in FuncCalls :
      /\ calls[i].idx \in 0..(Len(inst.args) - 1)
      /\ inst.args[calls[i].idx + 1].kind = "valid"
      /\ calls[i].loc = inst.args[calls[i].idx + 1].loc
      /\ inst.kind = "plain" => calls[i].idx \in PtrArgs(inst.args)
      /\ inst.kind # "plain" => calls[i].idx \in inst.memArgs
      /\ calls[i].read \in {"No", "May"}
      /\ calls[i].write \in {"No", "May"}
      /\ calls[i].read = "No" <=>
           (~inst.mayRead \/ (inst.kind = "intrinsic" /\ inst.marker))
      /\ calls[i].write = "No" <=>
           (~inst.mayWrite \/ (inst.kind = "intrinsic" /\ inst.marker))

\* A memory-marker intrinsic that is declared to read and write memory, with
\* one valid memory parameter: Func reports it with read No and write No.
C22_Witness ==
  /\ fpc = "enumerated"
  /\ inst.op = "call"
  /\ inst.kind = "intrinsic"
  /\ inst.marker
  /\ inst.mayRead
  /\ inst.mayWrite
  /\ FuncCalls # {}
  /\ \A i \in FuncCalls : calls[i] = FuncCall(LocB, calls[i].idx, "No", "No")


(***************************************************************************)
(* Properties of the clause printer                                        *)
(***************************************************************************)
\* The operator of a reduction kind in an OpenMP reduction clause.
OpenMPOperator(k) ==
  CASE k = "RK_Add" -> "+:"
    [] k = "RK_Mult" -> "*:"
    [] k = "RK_Or" -> "|:"
    [] k = "RK_And" -> "&:"
    [] k = "RK_Xor" -> "^:"
    [] k = "RK_Max" -> "max:"
    [] k = "RK_Min" -> "min:"

RECURSIVE CommaSeparated(_)
CommaSeparated(L) ==
  IF Len(L) <= 1 THEN L
  ELSE <<Head(L), ", ">> \o CommaSeparated(Tail(L))

RECURSIVE ExpectedClauses(_)
\* reduction(<op>:v1, v2, ...) for every kind below n with variables.
ExpectedClauses(n) ==
  IF n = RK_First THEN <<>>
  ELSE ExpectedClauses(n - 1)
         \o (IF VarInfoList[n - 1] = <<>> THEN <<>>
             ELSE <<"reduction", "(", OpenMPOperator(ReductionKinds[n])>>
                    \o CommaSeparated(VarInfoList[n - 1]) \o <<")">>)

\* C27: after the loop has passed k kinds the pragma is its prefix followed,
\* for every one of these kinds with a non-empty variable list and in the
\* order of the kinds, by reduction(<op>:v1, v2, ...) with the operator of the
\* kind (+, *, |, &, ^, max, min) and all variables of the list in order.
C27_ReductionClauses ==
  tpc = "clauses" => ParallelFor = PragmaPrefix \o ExpectedClauses(rk)

\* With no xor reduction variable every clause is printed as C27 says.
C27_HoldsWithoutXor ==
  (tpc = "clauses" /\ VarInfoList[4] = <<>>)
    => ParallelFor = PragmaPrefix \o ExpectedClauses(rk)


(***************************************************************************)
(* Properties of findAvailableDecls                                        *)
(***************************************************************************)
\* The defining instruction and its transitive operands.
TransitiveOps == OperandClosure(values, {DI}, {DI})

\* C25: if the defining instruction or one of its transitive operands is a
\* call that may have a side effect (it may write memory) or may throw, the
\* usage's list of available declarations is empty when findAvailableDecls
\* returns.
C25_SideEffectClearsAvailable ==
  (/\ tpc = "availDone"
   /\ \E v \in TransitiveOps :
        /\ values[v].kind = "call"
        /\ values[v].mayWrite \/ values[v].mayThrow)
    => Available = {}

\* The list is empty whenever such a call may both read and write memory or
\* may throw.
C25_ReadWriteClearsAvailable ==
  (/\ tpc = "availDone"
   /\ \E v \in TransitiveOps :
        /\ values[v].kind = "call"
        /\ (values[v].mayWrite /\ values[v].mayRead) \/ values[v].mayThrow)
    => Available = {}


(***************************************************************************)
(* Properties of checkAssignmentRHS                                        *)
(***************************************************************************)
\* The declarations referenced in the right-hand side.
DeclsOfRHS ==
  {visitor.mDeclRefs[i] : i \in (DefRHS.DeclRefIdx + 1)..Len(visitor.mDeclRefs)}

\* The usage U has got the right-hand side as a replacement of D.
Registered(U, D) ==
  /\ U.Usage \in DOMAIN visitor.mUseLocs
  /\ D \in DOMAIN visitor.mUseLocs[U.Usage]

\* C24: the right-hand side is registered as a replacement at a usage U of
\* the definition only if every declaration referenced in the right-hand
\* side is in the Available set of U, for every usage U; and a candidate
\* that occurs in the right-hand side never receives the replacement.
C24_ReplacementOnlyIfAvailable ==
  tpc = "checked" =>
    \A U \in visitor.mDefLocs[DefRHS.Definition] :
      \A i \in DOMAIN U.Candidate :
        Registered(U, U.Candidate[i]) =>
          /\ DeclsOfRHS \subseteq U.Available
          /\ U.Candidate[i] \notin DeclsOfRHS

\* A candidate that occurs in the right-hand side never receives the
\* replacement, and with one usage the replacement is registered only if
\* every referenced declaration is available.
C24_HoldsForOneUsage ==
  tpc = "checked" =>
    \A U \in visitor.mDefLocs[DefRHS.Definition] :
      \A i \in DOMAIN U.Candidate :
        Registered(U, U.Candidate[i]) =>
          /\ U.Candidate[i] \notin DeclsOfRHS
          /\ Cardinality(visitor.mDefLocs[DefRHS.Definition]) = 1
               => DeclsOfRHS \subseteq U.Available


(***************************************************************************)
(* Properties of runOnFunction                                             *)
(***************************************************************************)
\* C28: for one use location and one declaration there is never more than
\* one replacement string: a recorded replacement is never followed by a
\* different one and the assertion 'It must be new replacement!' does not
\* fail.
C28_OneReplacementPerUse ==
  [][/\ tpc' # "aborted"
     /\ \A Loc \in DOMAIN visitor.mUseLocs :
          \A D \in DOMAIN visitor.mUseLocs[Loc] :
            visitor'.mUseLocs[Loc][D].Definition
              = visitor.mUseLocs[Loc][D].Definition]_vars

\* If every instruction has its own location there is one replacement per
\* use location and declaration.
C28_HoldsForDistinctLocations ==
  [][(\A v, w \in 1..MaxDefs :
        \A i \in DOMAIN dbgValues[v].Uses, j \in DOMAIN dbgValues[w].Uses :
          dbgValues[v].Uses[i] = dbgValues[w].Uses[j] => (v = w /\ i = j))
       => /\ tpc' # "aborted"
          /\ \A Loc \in DOMAIN visitor.mUseLocs :
               \A D \in DOMAIN visitor.mUseLocs[Loc] :
                 visitor'.mUseLocs[Loc][D].Definition
                   = visitor.mUseLocs[Loc][D].Definition]_vars


(***************************************************************************)
(* Properties of the traversal by DefUseVisitor                            *)
(***************************************************************************)
\* A Traverse* method that has called enterInScope returns.
ScopeReturns == Len(stack') < Len(stack)

\* What the method met when it was called is there again.
ScopesRestored ==
  /\ Len(visitor'.mDeclsInScope) = TopFrame.before.depth
  /\ visitor'.mVisibleDecls = TopFrame.before.visible
  /\ tpc' # "aborted"

\* C29: the scopes are balanced: when a Traverse* method that calls
\* enterInScope returns, be it for a block with a pending propagate clause
\* and a macro, mDeclsInScope is as deep and every stack of mVisibleDecls
\* holds what it did at the call, and exitFromScope and VisitNamedDecl never
\* find the stack of scopes empty.
C29_ScopesBalanced == [][ScopeReturns => ScopesRestored]_vars

\* The scopes are balanced as long as no block with a pending clause and a
\* macro has been traversed.
C29_HoldsWithoutMacro ==
  [][(/\ ScopeReturns
      /\ Len(visitor.mDeclsInScope) = Len(stack)
      /\ TopFrame.branch # "macro") => ScopesRestored]_vars

\* TraverseCompoundStmt returns.
CompoundReturns == ScopeReturns /\ TopFrame.class = "CompoundStmt"

\* C30: TraverseCompoundStmt returns what the base traversal of the block
\* returned, with or without a pending propagate clause, and
\* mActivePropagate is after the call what it was before.
C30_CompoundReturnsBaseResult ==
  [][CompoundReturns
       => /\ Res' = Res
          /\ visitor'.mActivePropagate = TopFrame.before.active]_vars

\* mActivePropagate is restored, and the result is that of the base
\* traversal unless the block is traversed with propagation switched on
\* for a pending clause.
C30_HoldsWithoutClause ==
  [][CompoundReturns
       => /\ TopFrame.branch # "clause" => Res' = Res
          /\ visitor'.mActivePropagate = TopFrame.before.active]_vars

\* The replacements of references this step adds to the rewriter.
NewRewrites == {R \in visitor'.mRewriter \ visitor.mRewriter : R.Text # ""}

\* The declaration D is what its name denotes here, or is at file scope.
ReallyVisible(D) == FoundDecl(stack, D.name) = D \/ isFileContext(D)

\* The text R has been recorded for a declaration that may be propagated
\* here, and all it accesses pass the test.
Justified(R, Test(_)) ==
  \E Loc \in DOMAIN visitor.mUseLocs :
    \E ND \in DOMAIN visitor.mUseLocs[Loc] :
      /\ visitor.mUseLocs[Loc][ND].Definition = R.Text
      /\ ND \in visitor.mDeclsToPropagate \/ visitor.mActivePropagate
      /\ \A AccessDecl \in visitor.mUseLocs[Loc][ND].Access :
           Test(AccessDecl)

\* C26: a reference is rewritten only with a replacement recorded for its
\* declaration, when the declaration is marked for propagation or
\* propagation is active, and when every declaration the replacement
\* accesses is the innermost visible declaration of its name at this point
\* or is at file scope; a replacement with a hidden declaration is never
\* inserted.
C26_RewriteOnlyVisible ==
  [][\A R \in NewRewrites : Justified(R, ReallyVisible)]_vars

\* The same with the declarations the visitor has on top of mVisibleDecls
\* in place of the visible ones.
C26_HoldsForTrackedDecls ==
  [][\A R \in NewRewrites :
       Justified(R, LAMBDA D : ~IsHidden(visitor, D))]_vars


\* The reference is the target of an assignment or of an increment or
\* decrement: the first children of the statement lead to it and none of
\* them is a binary operator, an array subscript or a call.
IsTarget(Ref) ==
  /\ isAssignmentOp(Ref.S) \/ isIncrementDecrementOp(Ref.S)
  /\ Ref.child = 1
  /\ \A i \in DOMAIN Ref.path :
       Ref.path[i] \notin {"BinaryOperator", "ArraySubscriptExpr", "CallExpr"}

\* C23: the target of an assignment or of an increment or decrement is never
\* rewritten: mNotPropagate holds such references only, and there is no
\* ReplaceText for a target nor for a reference of mNotPropagate.
C23_TargetNeverRewritten ==
  /\ \A Ref \in visitor.mNotPropagate : IsTarget(Ref)
  /\ \A R \in visitor.mRewriter :
       R.Ref \notin visitor.mNotPropagate /\ ~IsTarget(R.Ref)

\* An assignment has been traversed where x is replaced: its target x is in
\* mNotPropagate and the x of its right-hand side has been rewritten.
C23_Witness ==
  \E Ref \in visitor.mNotPropagate :
    /\ Ref.path = <<"DeclRefExpr">>
    /\ \E R \in visitor.mRewriter :
         R.Ref.S = Ref.S /\ R.Ref.child = 2 /\ R.Text # ""
====
